---- MODULE Spec2Model ----
(***************************************************************************)
(* Discovery-to-promotion workflow of the crypto job tracker:              *)
(*   src/src/cli/discover.py    run / promote / dismiss commands           *)
(*   src/src/db/queries.py      persistence calls (one connection each)    *)
(*   src/src/discovery/*.py     search client and response parser          *)
(*                                                                         *)
(* Text is a sequence of character tokens (<<"A","c">> is "Ac"); a token   *)
(* outside ASCII is written by its code point ("U+00C9" is E-acute).       *)
(* Python / SQL values are tagged records, so that None, text, integers    *)
(* and JSON lists stay distinct values.                                    *)
(***************************************************************************)
EXTENDS Integers, Sequences, FiniteSets, TLC

(* ------------------------------ bounds -------------------------------- *)
MaxCompanies == 1   \* `company add` is run while the companies table is shorter than this
MaxJobs == 1        \* `job add` is run while the jobs table is shorter than this

\* command-line processes; Spec runs one command at a time, in process 1
Procs == {1, 2}

(* ------------------------------ values -------------------------------- *)
None == [kind |-> "none"]
Str(s) == [kind |-> "str", val |-> s]
IntV(n) == [kind |-> "int", val |-> n]
List(l) == [kind |-> "list", val |-> l]
Dict(d) == [kind |-> "dict", val |-> d]

\* Python truthiness: None, "" and [] are falsy; an id is never 0 here.
Truthy(v) ==
    CASE v.kind = "none" -> FALSE
      [] v.kind = "str" -> v.val # <<>>
      [] v.kind = "list" -> v.val # <<>>
      [] v.kind = "int" -> v.val # 0
      [] OTHER -> TRUE

\* Python `a or b`
Or(a, b) == IF Truthy(a) THEN a ELSE b

\* str.startswith
startswith(s, prefix) ==
    /\ Len(s) >= Len(prefix)
    /\ SubSeq(s, 1, Len(prefix)) = prefix

\* sqlite3 can bind None, str and int; a list or dict parameter raises
\* "Error binding parameter".
Bindable(v) == v.kind \in {"none", "str", "int"}

UpperAscii == <<"A", "B", "C", "D", "E", "F", "G", "H", "I", "J", "K", "L", "M",
                "N", "O", "P", "Q", "R", "S", "T", "U", "V", "W", "X", "Y", "Z">>
LowerAscii == <<"a", "b", "c", "d", "e", "f", "g", "h", "i", "j", "k", "l", "m",
                "n", "o", "p", "q", "r", "s", "t", "u", "v", "w", "x", "y", "z">>

\* SQLite's built-in LOWER(): folds the 26 ASCII letters, leaves every other
\* character as it is.
LowerChar(c) ==
    IF \E i \in 1..26 : UpperAscii[i] = c
    THEN LowerAscii[CHOOSE i \in 1..26 : UpperAscii[i] = c]
    ELSE c

LOWER(v) == IF v.kind = "str" THEN Str([i \in 1..Len(v.val) |-> LowerChar(v.val[i])]) ELSE v

(* ----------------------------- literals ------------------------------- *)
Unknown == <<"U", "n", "k", "n", "o", "w", "n">>
NoTitle == <<"[", "N", "o", " ", "T", "i", "t", "l", "e", "]">>
ParseErrorTitle == <<"[", "P", "A", "R", "S", "E", " ", "E", "R", "R", "O", "R", "]">>
Http == <<"h", "t", "t", "p", ":", "/", "/">>
Https == <<"h", "t", "t", "p", "s", ":", "/", "/">>
perplexity == <<"p", "e", "r", "p", "l", "e", "x", "i", "t", "y">>
remote == <<"r", "e", "m", "o", "t", "e">>
EmptyResponse == <<"E", "m", "p", "t", "y", " ", "r", "e", "s", "p", "o", "n", "s", "e">>
NoValidJobs ==
    <<"N", "o", " ", "v", "a", "l", "i", "d", " ", "j", "o", "b", "s", " ", "f", "o", "u", "n", "d", " ", "i", "n", " ", "r", "e", "s", "p", "o", "n", "s", "e">>
REMOTE_OPTIONS == {remote, <<"h", "y", "b", "r", "i", "d">>, <<"o", "n", "s", "i", "t", "e">>}

(* ------------------------------- state -------------------------------- *)
VARIABLES
    companies,    \* companies table: row i has id i (AUTOINCREMENT, never deleted)
    jobs,         \* jobs table
    discovered,   \* discovered_jobs table
    job_skills,   \* job_skills table: the set of its rows
    skills,       \* skills table: row i has id i
    applications, \* applications table
    interviews,   \* interviews table
    pc,           \* pc[p]: where process p is in its command
    frame,        \* frame[p]: the command's local variables and its outcome
    pre           \* pre[p]: the tables as they were when p's command started (history)

vars == <<companies, jobs, discovered, job_skills, skills, applications, interviews,
          pc, frame, pre>>
store == <<companies, jobs, discovered>>
\* the tables the discovery workflow never touches
tracking == <<job_skills, skills, applications, interviews>>

Tables == [companies |-> companies, jobs |-> jobs, discovered |-> discovered]
NoFrame == [op |-> "none"]
NoTables == [companies |-> <<>>, jobs |-> <<>>, discovered |-> <<>>]

(* ------------------ schema constraints (src/db/schema.sql) ------------ *)
\* companies.name UNIQUE (default BINARY collation: case-sensitive)
CompanyNameTaken(name) == \E i \in DOMAIN companies : companies[i].name = name

\* jobs.url UNIQUE: NULLs never collide
JobUrlTaken(url) == url # None /\ \E i \in DOMAIN jobs : jobs[i].url = url

\* discovered_jobs.url UNIQUE
DiscoveredUrlTaken(url) == url # None /\ \E i \in DOMAIN discovered : discovered[i].url = url

\* a faulty variant: the connection leaves SQLite's default, which does not
\* enforce REFERENCES
foreign_keys_off == FALSE

\* get_db: conn.execute("PRAGMA foreign_keys = ON") on every connection
foreign_keys == TRUE

\* jobs.company_id REFERENCES companies(id)
CompanyIdValid(company_id) == company_id \in DOMAIN companies

\* applications.job_id REFERENCES jobs(id)
JobIdValid(job_id) == job_id \in DOMAIN jobs

\* interviews.application_id REFERENCES applications(id)
ApplicationIdValid(application_id) == application_id \in DOMAIN applications

\* discovered_jobs.promoted_to_job_id REFERENCES jobs(id), against the jobs table js
PromotedRefValid(ref, js) == ref = None \/ ref.val \in DOMAIN js

(* ---------------------- persistence (queries.py) ---------------------- *)
\* Each call opens its own connection, runs one statement and commits.
\* `fails` is a failure of the call that the data does not decide
\* (sqlite3.OperationalError: database is locked, disk I/O error, ...).

create_company_raises(company, fails) ==
    \/ fails
    \/ ~Bindable(company.name)
    \/ CompanyNameTaken(company.name)

\* the table after the INSERT; the new row's id is its position
create_company(company) == Append(companies, company)

\* SELECT * FROM companies WHERE LOWER(name) = LOWER(?): the ids that match.
\* fetchone() takes one of them; SQL fixes no order without ORDER BY.
get_company_by_name(name) ==
    {i \in DOMAIN companies : LOWER(companies[i].name) = LOWER(name)}

\* SELECT * FROM companies WHERE id = ?: is there such a row
get_company(company_id) == company_id \in DOMAIN companies

\* a faulty variant: the INSERT goes through whatever url the row carries
create_job_raises_any_url(job, fails) ==
    \/ fails
    \/ ~Bindable(job.title)
    \/ foreign_keys /\ ~CompanyIdValid(job.company_id)

create_job_raises(job, fails) ==
    \/ fails
    \/ ~Bindable(job.title)
    \/ foreign_keys /\ ~CompanyIdValid(job.company_id)
    \/ JobUrlTaken(job.url)

create_job(job) == Append(jobs, job)

create_discovered_job_raises(dj, fails) ==
    \/ fails
    \/ ~Bindable(dj.title)
    \/ ~Bindable(dj.company_name)
    \/ ~Bindable(dj.requirements_raw)
    \/ DiscoveredUrlTaken(dj.url)

\* the INSERT names no promoted_to_job_id column: the row gets NULL there
DiscoveredRow(dj) ==
    [title |-> dj.title, company_name |-> dj.company_name,
     url |-> dj.url, requirements_raw |-> dj.requirements_raw,
     source |-> dj.source, raw_response |-> dj.raw_response,
     status |-> dj.status, promoted_to_job_id |-> None]

create_discovered_job(dj) == Append(discovered, DiscoveredRow(dj))

get_discovered_job(job_id) ==
    IF job_id \in DOMAIN discovered THEN Dict(discovered[job_id]) ELSE None

update_discovered_job_status_raises(job_id, status, promoted_to_job_id, fails) ==
    \/ fails
    \/ foreign_keys /\ ~PromotedRefValid(promoted_to_job_id, jobs)

\* a faulty variant: only the status column is written
update_status_column_only(job_id, status, promoted_to_job_id) ==
    [i \in DOMAIN discovered |->
        IF i = job_id THEN [discovered[i] EXCEPT !.status = status] ELSE discovered[i]]

\* a faulty variant: the UPDATE has no WHERE clause
update_every_row(job_id, status, promoted_to_job_id) ==
    [i \in DOMAIN discovered |->
        [discovered[i] EXCEPT !.status = status, !.promoted_to_job_id = promoted_to_job_id]]

\* UPDATE discovered_jobs SET status = ?, promoted_to_job_id = ? WHERE id = ?
\* one statement: both columns change together; no row matches an unknown id
update_discovered_job_status(job_id, status, promoted_to_job_id) ==
    [i \in DOMAIN discovered |->
        IF i = job_id
        THEN [discovered[i] EXCEPT !.status = status,
                                   !.promoted_to_job_id = promoted_to_job_id]
        ELSE discovered[i]]

\* a faulty variant: the staging table is never consulted
discovered_job_exists_never(url) == FALSE

\* a faulty variant: the check looks into the jobs table as well
discovered_job_exists_in_either(url) ==
    /\ url # None
    /\ \/ \E i \in DOMAIN discovered : discovered[i].url = url
       \/ \E i \in DOMAIN jobs : jobs[i].url = url

\* SELECT 1 FROM discovered_jobs WHERE url = ?: NULL equals nothing
discovered_job_exists(url) ==
    url # None /\ \E i \in DOMAIN discovered : discovered[i].url = url

\* a faulty variant: the jobs table is never consulted
job_url_exists_never(url) == FALSE

\* SELECT 1 FROM jobs WHERE url = ?
job_url_exists(url) == url # None /\ \E i \in DOMAIN jobs : jobs[i].url = url

(* ------------------- search responses (perplexity.py) ----------------- *)
\* The text the search service returns is modelled by its syntax:
\*   [form |-> "json", value |-> v]   the text is a JSON document encoding v
\*   [form |-> "text", chars |-> s]   the text s holds no JSON document
\*   [form |-> "mixed", chars |-> s, blocks |-> b, spans |-> m]
\*        the text s is no JSON document as a whole; b lists the stripped
\*        contents of its fenced code blocks and m the matches of the bracket
\*        pattern (greedy: from the first "[" to the last "]"), each of them a
\*        text of one of the first two forms
Json(v) == [form |-> "json", value |-> v]
Text(s) == [form |-> "text", chars |-> s]
Mixed(s, blocks, spans) == [form |-> "mixed", chars |-> s, blocks |-> blocks, spans |-> spans]

Digits == <<"1", "2", "3", "4", "5", "6">>
Url(n) == Https \o <<Digits[n]>>
\* the postings the search service knows of
Urls == {Url(1), Url(2)}

Analyst == <<"D", "A">>
SQL == <<"S", "Q", "L">>
Name_et == <<"U+00E9", "t">>     \* e-acute, t: the company the service names
Name_eT == <<"U+00E9", "T">>     \* the same name with the ASCII letter in upper case
Name_Et == <<"U+00C9", "t">>     \* the same name with the accented letter in upper case

Elem(n, title, company, requirements) ==
    Dict([title |-> title, company |-> company, url |-> Str(Url(n)),
          requirements |-> requirements])

Good(n) == Elem(n, Str(Analyst), Str(Name_et), Str(SQL))
Blank(n) == Elem(n, Str(<<>>), Str(<<>>), Str(SQL))
ListReq(n) == Elem(n, Str(Analyst), Str(Name_et), List(<<Str(SQL)>>))
BadUrl == Dict([title |-> Str(Analyst), company |-> Str(Name_et),
                url |-> Str(<<"f", "t", "p", ":", "/", "/", "1">>),
                requirements |-> Str(SQL)])
NoUrl == Dict([title |-> Str(Analyst), url |-> None])
MissingUrl == Dict([title |-> Str(Analyst), company |-> Str(Name_et), requirements |-> Str(SQL)])
EmptyUrl == Dict([title |-> Str(Analyst), company |-> Str(Name_et), url |-> Str(<<>>),
                  requirements |-> Str(SQL)])
IntUrl == Dict([title |-> Str(Analyst), company |-> Str(Name_et), url |-> IntV(7),
                requirements |-> Str(SQL)])

\* the responses the model draws from
Responses ==
    {Json(List(<<Good(1), Good(1)>>)),
     Json(List(<<Blank(2), Blank(2), ListReq(1)>>)),
     Json(List(<<ListReq(1), Good(1)>>)),
     Json(List(<<BadUrl, NoUrl, MissingUrl, EmptyUrl>>)),
     Json(List(<<IntUrl>>)),
     Json(List(<<>>)),
     Text(<<"n", "o", " ", "j", "s", "o", "n">>)}

(* ------------------------- parser (parser.py) ------------------------- *)
\* `if not raw_response`: the empty string
IsEmptyText(raw) == raw.form = "text" /\ raw.chars = <<>>

\* json.loads succeeds on exactly the texts that are JSON documents
JsonLoads(raw) == raw.form = "json"

\* lines 27-34 and 39-44: the first of the matches that json.loads accepts
FirstDecoding(matches) ==
    IF \E i \in DOMAIN matches : JsonLoads(matches[i])
    THEN Dict(matches[CHOOSE i \in DOMAIN matches :
                         /\ JsonLoads(matches[i])
                         /\ \A k \in 1..(i - 1) : ~JsonLoads(matches[k])])
    ELSE None

\* The JSON text found in the response, or None: the whole text, else the
\* first code block that decodes, else the first bracketed match that decodes.
extract_json_from_response(raw_response) ==
    IF IsEmptyText(raw_response) THEN None
    ELSE IF JsonLoads(raw_response) THEN Dict(raw_response)
    ELSE IF raw_response.form = "mixed"
    THEN Or(FirstDecoding(raw_response.blocks), FirstDecoding(raw_response.spans))
    ELSE None

\* a faulty variant: nothing is cut off
Truncate_nothing(s, n) == s

\* raw_response[:500]
Truncate(s, n) == SubSeq(s, 1, IF Len(s) < n THEN Len(s) ELSE n)

JsonDecodeError ==
    <<"J", "S", "O", "N", " ", "d", "e", "c", "o", "d", "e", " ", "e", "r", "r", "o", "r", ":", " ">>
\* str(e) of the decoder's exception
DecoderMessage == <<"E", "x", "p", "e", "c", "t", "i", "n", "g">>

SyntheticError(requirements) ==
    [title |-> Str(ParseErrorTitle), company |-> Str(Unknown), url |-> None,
     requirements |-> requirements, parse_error |-> TRUE]

\* dict.get(key, default)
Get(d, key, default) == IF key \in DOMAIN d THEN d[key] ELSE default

\* url.startswith on a truthy url that is no str raises AttributeError
UrlCheckRaises(job) ==
    LET url == Get(job, "url", None) IN Truthy(url) /\ url.kind # "str"

\* a faulty variant: every scheme is accepted
BadScheme_never(url) == FALSE

BadScheme(url) ==
    Truthy(url) /\ ~(startswith(url.val, Http) \/ startswith(url.val, Https))

\* lines 83-95: one dict of the array becomes one candidate
Normalize(job) ==
    LET url == Get(job, "url", None) IN
    [title |-> Get(job, "title", Str(NoTitle)),
     company |-> Get(job, "company", Str(Unknown)),
     url |-> IF BadScheme(url) THEN None ELSE url,
     requirements |-> Get(job, "requirements", Str(<<>>)),
     parse_error |-> BadScheme(url)]

\* a faulty variant: one element that is no dict spoils the whole array
ParsedJobs_all_or_nothing(jobs_data) ==
    IF \E i \in DOMAIN jobs_data : jobs_data[i].kind # "dict"
    THEN <<>>
    ELSE [i \in DOMAIN jobs_data |-> Normalize(jobs_data[i].val)]

\* a faulty variant: only the first element of the array is looked at
ParsedJobs_first_only(jobs_data) ==
    IF jobs_data # <<>> /\ Head(jobs_data).kind = "dict"
    THEN <<Normalize(Head(jobs_data).val)>> ELSE <<>>

RECURSIVE ParsedJobs(_)
ParsedJobs(jobs_data) ==
    IF jobs_data = <<>> THEN <<>>
    ELSE IF Head(jobs_data).kind # "dict" THEN ParsedJobs(Tail(jobs_data))
    ELSE <<Normalize(Head(jobs_data).val)>> \o ParsedJobs(Tail(jobs_data))

\* parse_jobs: [raised, jobs]; raised when the url check hits a non-str url
parse_jobs(raw_response) ==
    LET json_str == extract_json_from_response(raw_response) IN
    IF ~Truthy(json_str)
    THEN [raised |-> FALSE,
          jobs |-> <<SyntheticError(IF IsEmptyText(raw_response)
                                    THEN Str(EmptyResponse)
                                    ELSE Str(Truncate(raw_response.chars, 500)))>>]
    ELSE IF ~JsonLoads(json_str.val)
    THEN [raised |-> FALSE,
          jobs |-> <<SyntheticError(Str(JsonDecodeError \o DecoderMessage))>>]
    ELSE LET loaded == json_str.val.value
             jobs_data == IF loaded.kind # "list" THEN <<loaded>> ELSE loaded.val
             parsed_jobs == ParsedJobs(jobs_data)
         IN IF \E i \in DOMAIN jobs_data :
                   jobs_data[i].kind = "dict" /\ UrlCheckRaises(jobs_data[i].val)
            THEN [raised |-> TRUE, jobs |-> <<>>]
            ELSE [raised |-> FALSE,
                  jobs |-> IF parsed_jobs # <<>> THEN parsed_jobs
                           ELSE <<SyntheticError(Str(NoValidJobs))>>]

\* the skills table after seed.sql: "SQL" and one more seeded skill
Python == <<"P", "y", "t", "h", "o", "n">>
SeedSkills == <<[name |-> Str(SQL), category |-> Str(SQL)],
                [name |-> Str(Python), category |-> None]>>

(* ------------------------------ processes ----------------------------- *)
Init ==
    /\ companies = <<>>
    /\ jobs = <<>>
    /\ discovered = <<>>
    /\ job_skills = {}
    /\ skills = SeedSkills
    /\ applications = <<>>
    /\ interviews = <<>>
    /\ pc = [p \in Procs |-> "idle"]
    /\ frame = [p \in Procs |-> NoFrame]
    /\ pre = [p \in Procs |-> NoTables]

\* p starts a command: its frame is fresh and pre[p] remembers the tables.
\* The direct persistence calls on the tracking tables do not go through Enter or Goto.
Enter(p, label, locals) ==
    /\ pc' = [pc EXCEPT ![p] = label]
    /\ frame' = [frame EXCEPT ![p] = locals]
    /\ pre' = [pre EXCEPT ![p] = Tables]
    /\ UNCHANGED tracking

\* p moves on inside its command
Goto(p, label, locals) ==
    /\ pc' = [pc EXCEPT ![p] = label]
    /\ frame' = [frame EXCEPT ![p] = locals]
    /\ UNCHANGED <<pre, tracking>>

\* the process has printed its last message (frame[p].result) and ends
exit(p) ==
    /\ pc[p] = "exit"
    /\ pc' = [pc EXCEPT ![p] = "idle"]
    /\ frame' = [frame EXCEPT ![p] = NoFrame]
    /\ pre' = [pre EXCEPT ![p] = NoTables]
    /\ UNCHANGED <<store, tracking>>

(* ------------------------ company add (company.py) -------------------- *)
DeFi == <<"D", "e", "F", "i">>
SECTORS ==
    {DeFi, <<"N", "F", "T">>,
     <<"I", "n", "f", "r", "a", "s", "t", "r", "u", "c", "t", "u", "r", "e">>,
     <<"E", "x", "c", "h", "a", "n", "g", "e">>,
     <<"A", "n", "a", "l", "y", "t", "i", "c", "s">>,
     <<"O", "t", "h", "e", "r">>}

\* `x if x else None`
OrNone(s) == IF s # <<>> THEN Str(s) ELSE None

company_add(p) ==
    /\ pc[p] = "idle"
    /\ Len(companies) < MaxCompanies
    /\ \E name \in {Name_eT, Name_Et}, sector \in {<<>>}, fails \in BOOLEAN :
        LET company_obj == [name |-> Str(name),
                            sector |-> IF sector \in SECTORS THEN Str(sector) ELSE None,
                            chain_focus |-> None]
        IN IF create_company_raises(company_obj, fails)
           THEN /\ Enter(p, "exit", [op |-> "company add", result |-> <<"Error">>])
                /\ UNCHANGED store
           ELSE /\ companies' = create_company(company_obj)
                /\ Enter(p, "exit", [op |-> "company add", result |-> <<"Created company">>])
                /\ UNCHANGED <<jobs, discovered>>

(* --------------------------- job add (job.py) ------------------------- *)
job_add(p) ==
    /\ pc[p] = "idle"
    /\ Len(jobs) < MaxJobs
    /\ \E company_id \in {1, 99}, url \in {<<>>, Url(1)}, fails \in BOOLEAN :
        LET job_obj == [company_id |-> company_id, title |-> Str(Analyst),
                        url |-> OrNone(url), remote_status |-> None,
                        source |-> None, notes |-> None, status |-> "open"]
        IN IF companies = <<>>
           THEN /\ Enter(p, "exit", [op |-> "job add", result |-> <<"No companies found">>])
                /\ UNCHANGED store
           ELSE IF ~get_company(company_id)
           THEN /\ Enter(p, "exit", [op |-> "job add", result |-> <<"Company not found">>])
                /\ UNCHANGED store
           ELSE IF create_job_raises(job_obj, fails)
           THEN /\ Enter(p, "exit", [op |-> "job add", result |-> <<"Error">>])
                /\ UNCHANGED store
           ELSE /\ jobs' = create_job(job_obj)
                /\ Enter(p, "exit", [op |-> "job add", result |-> <<"Created job">>])
                /\ UNCHANGED <<companies, discovered>>

(* ------------------------ discover run (discover.py) ------------------ *)
\* What requests.post and the two calls after it yield (perplexity.py:76-86):
\*   ok          a 2xx answer whose JSON body carries the content
\*   timeout     requests.exceptions.Timeout
\*   http        raise_for_status raised HTTPError for a 4xx/5xx answer
\*   transport   any other requests.exceptions.RequestException
\*   unexpected  any other exception (a body of an unexpected shape, ...)
NotFoundBody == <<"N", "o", "t", " ", "F", "o", "u", "n", "d">>
Replies ==
    {[kind |-> "ok", content |-> r] : r \in Responses}
    \cup {[kind |-> "timeout"], [kind |-> "transport"], [kind |-> "unexpected"],
          [kind |-> "http", status_code |-> 404, text |-> Text(NotFoundBody)],
          [kind |-> "http", status_code |-> 500, text |-> Text(<<>>)]}
NoReply == [kind |-> "none"]

\* requests.Response.__bool__ is Response.ok: false for a 4xx/5xx status
ResponseTruthy(reply) == reply.status_code < 400

\* the dict search_jobs returns on a failure
Failure(raw_response, error) ==
    [success |-> FALSE, raw_response |-> raw_response, error |-> error]

\* a faulty variant: every failure gets the same reason
search_jobs_one_reason(api_key, reply) ==
    IF api_key /\ reply.kind = "ok"
    THEN [success |-> TRUE, raw_response |-> reply.content, error |-> <<>>]
    ELSE Failure(Text(<<>>), <<"Request failed">>)

\* perplexity.py:39-122
search_jobs(api_key, reply) ==
    IF ~api_key
    THEN Failure(Text(<<>>), <<"PERPLEXITY_API_KEY environment variable not set">>)
    ELSE CASE reply.kind = "ok" ->
                [success |-> TRUE, raw_response |-> reply.content, error |-> <<>>]
           [] reply.kind = "timeout" -> Failure(Text(<<>>), <<"API request timed out">>)
           [] reply.kind = "http" ->
                Failure(IF ResponseTruthy(reply) THEN reply.text ELSE Text(<<>>),
                        <<"HTTP error",
                          IF ResponseTruthy(reply) THEN IntV(reply.status_code)
                          ELSE Str(<<"u", "n", "k", "n", "o", "w", "n">>)>>)
           [] reply.kind = "transport" -> Failure(Text(<<>>), <<"Request failed">>)
           [] reply.kind = "unexpected" -> Failure(Text(<<>>), <<"Unexpected error">>)

\* api_key: is the credential set in the environment; requested: has the
\* request been sent; parsed: has parse_jobs been called
RunFrame == [op |-> "run", api_key |-> FALSE, reply |-> NoReply, requested |-> FALSE,
             parsed |-> FALSE, success |-> FALSE, error |-> <<>>,
             raw_response |-> Text(<<>>), jobs |-> <<>>, i |-> 1,
             new_count |-> 0, dup_count |-> 0, error_count |-> 0, result |-> <<>>]

\* a faulty variant: the credential is not looked at
run_begin_unchecked(p) ==
    /\ pc[p] = "idle"
    /\ \E get_api_key \in BOOLEAN :
        Enter(p, "run_search", [RunFrame EXCEPT !.api_key = get_api_key])
    /\ UNCHANGED store

\* lines 29-37: the credential check
run_begin(p) ==
    /\ pc[p] = "idle"
    /\ \E get_api_key \in BOOLEAN :
        LET f == [RunFrame EXCEPT !.api_key = get_api_key]
        IN IF ~get_api_key
           THEN Enter(p, "exit", [f EXCEPT !.result = <<"PERPLEXITY_API_KEY not set">>])
           ELSE Enter(p, "run_search", f)
    /\ UNCHANGED store

\* lines 41-64: one call of search_jobs, which sends the request when it has
\* the credential; the text is parsed only when the call succeeded
run_search(p) ==
    /\ pc[p] = "run_search"
    /\ \E reply \in Replies :
        LET result == search_jobs(frame[p].api_key, reply)
            parsed == parse_jobs(result.raw_response)
            f == [frame[p] EXCEPT !.reply = reply,
                                  !.requested = frame[p].api_key,
                                  !.success = result.success,
                                  !.error = result.error,
                                  !.raw_response = result.raw_response]
            g == [f EXCEPT !.parsed = TRUE]
        IN IF ~result.success
           THEN Goto(p, "exit", [f EXCEPT !.result = <<"Error">> \o result.error])
           ELSE IF parsed.raised
           THEN Goto(p, "exit", [g EXCEPT !.result = <<"AttributeError">>])
           ELSE IF parsed.jobs = <<>>
           THEN Goto(p, "exit", [g EXCEPT !.result = <<"No jobs found in response">>])
           ELSE Goto(p, "run_loop", [g EXCEPT !.jobs = parsed.jobs])
    /\ UNCHANGED store

\* the DiscoveredJob built at lines 83-91
StagedJob(job, raw_response) ==
    [title |-> job.title, company_name |-> job.company, url |-> job.url,
     requirements_raw |-> job.requirements, source |-> Str(perplexity),
     raw_response |-> raw_response, status |-> "pending"]

\* a faulty variant: an error is not counted
count_error_forgotten(f) == f

\* `error_count += 1` (lines 69, 74, 98), `dup_count += 1` (79), `new_count += 1` (95)
count_error(f) == [f EXCEPT !.error_count = f.error_count + 1]
count_dup(f) == [f EXCEPT !.dup_count = f.dup_count + 1]
count_new(f) == [f EXCEPT !.new_count = f.new_count + 1]

\* line 78: is the url already staged or already tracked
\* a faulty variant: only a record still pending makes a url a duplicate
is_duplicate_pending_only(url) ==
    \/ \E i \in DOMAIN discovered :
          discovered[i].url = url /\ discovered[i].status = "pending"
    \/ job_url_exists(url)

is_duplicate(url) == discovered_job_exists(url) \/ job_url_exists(url)

\* a faulty variant: a failed insert ends the cycle
run_loop_aborting(p) ==
    /\ pc[p] = "run_loop"
    /\ frame[p].i <= Len(frame[p].jobs)
    /\ \E fails \in BOOLEAN :
        LET f == frame[p]
            job == f.jobs[f.i]
            dj == StagedJob(job, f.raw_response)
            next == [f EXCEPT !.i = f.i + 1]
        IN IF job.parse_error \/ ~Truthy(job.url)
           THEN /\ Goto(p, "run_loop", count_error(next))
                /\ UNCHANGED store
           ELSE IF is_duplicate(job.url)
           THEN /\ Goto(p, "run_loop", count_dup(next))
                /\ UNCHANGED store
           ELSE IF create_discovered_job_raises(dj, fails)
           THEN /\ Goto(p, "exit", [count_error(next) EXCEPT !.result = <<"Error saving job">>])
                /\ UNCHANGED store
           ELSE /\ discovered' = create_discovered_job(dj)
                /\ Goto(p, "run_loop", count_new(next))
                /\ UNCHANGED <<companies, jobs>>

\* lines 66-98: one iteration of the storing loop
run_loop(p) ==
    /\ pc[p] = "run_loop"
    /\ frame[p].i <= Len(frame[p].jobs)
    /\ \E fails \in BOOLEAN :
        LET f == frame[p]
            job == f.jobs[f.i]
            dj == StagedJob(job, f.raw_response)
            next == [f EXCEPT !.i = f.i + 1]
        IN IF job.parse_error
           THEN /\ Goto(p, "run_loop", count_error(next))
                /\ UNCHANGED store
           ELSE IF ~Truthy(job.url)
           THEN /\ Goto(p, "run_loop", count_error(next))
                /\ UNCHANGED store
           ELSE IF is_duplicate(job.url)
           THEN /\ Goto(p, "run_loop", count_dup(next))
                /\ UNCHANGED store
           ELSE IF create_discovered_job_raises(dj, fails)
           THEN /\ Goto(p, "run_loop", count_error(next))
                /\ UNCHANGED store
           ELSE /\ discovered' = create_discovered_job(dj)
                /\ Goto(p, "run_loop", count_new(next))
                /\ UNCHANGED <<companies, jobs>>

\* lines 100-107: the summary
run_report(p) ==
    /\ pc[p] = "run_loop"
    /\ frame[p].i > Len(frame[p].jobs)
    /\ Goto(p, "exit", [frame[p] EXCEPT !.result = <<"Results">>])
    /\ UNCHANGED store

(* ---------------------- discover promote (discover.py) ---------------- *)
\* ids a user may type: every row that can exist, and one that cannot
JobIds == {1, 2, 3}

\* failed: the database itself failed under one of the command's calls
PromoteFrame(job_id) ==
    [op |-> "promote", job_id |-> job_id, dj |-> None, company_id |-> 0,
     sector |-> None, chain_focus |-> None, job_id_new |-> 0, failed |-> FALSE,
     result |-> <<>>]

\* a faulty variant: a saved record may still be dismissed
dismiss_rejects_closed_only(dj) == dj.status \in {"promoted", "dismissed"}

\* faulty variants: only a promoted record is turned away / none is
promote_rejects_promoted_only(dj) == dj.status = "promoted"
dismiss_rejects_never(dj) == FALSE

\* line 172 (promote) and line 263 (dismiss): `dj.status != "pending"`
promote_rejects(dj) == dj.status # "pending"
dismiss_rejects(dj) == dj.status # "pending"

\* lines 200-204
NewCompany(dj, sector, chain_focus) ==
    [name |-> Or(dj.company_name, Str(Unknown)),
     sector |-> sector,
     chain_focus |-> chain_focus]

\* a faulty variant: the url is not carried over
NewJob_without_url(dj, company_id, remote_status) ==
    [company_id |-> company_id,
     title |-> Or(dj.title, Str(Unknown)),
     url |-> None,
     remote_status |-> None,
     source |-> Str(perplexity),
     notes |-> None,
     status |-> "open"]

\* lines 228-236; the prompts for source and notes are answered with their defaults
NewJob(dj, company_id, remote_status) ==
    [company_id |-> company_id,
     title |-> Or(dj.title, Str(Unknown)),
     url |-> dj.url,
     remote_status |-> IF remote_status \in REMOTE_OPTIONS THEN Str(remote_status) ELSE None,
     source |-> Str(perplexity),
     notes |-> None,
     status |-> "open"]

\* lines 166-178: read the staged record and check its status
promote_begin(p) ==
    /\ pc[p] = "idle"
    /\ \E job_id \in JobIds :
        LET dj == get_discovered_job(job_id)
            f == PromoteFrame(job_id)
        IN IF ~Truthy(dj)
           THEN Enter(p, "exit", [f EXCEPT !.result = <<"not found">>])
           ELSE IF promote_rejects(dj.val)
           THEN Enter(p, "exit", [f EXCEPT !.dj = dj, !.result = <<"already", dj.val.status>>])
           ELSE Enter(p, "promote_lookup", [f EXCEPT !.dj = dj])
    /\ UNCHANGED store

\* lines 180-185: look the company up by name
promote_lookup(p) ==
    /\ pc[p] = "promote_lookup"
    /\ LET dj == frame[p].dj.val
           found == IF Truthy(dj.company_name)
                    THEN get_company_by_name(dj.company_name) ELSE {}
       IN IF found # {}
          THEN \E id \in found :
                  Goto(p, "promote_create_job", [frame[p] EXCEPT !.company_id = id])
          ELSE Goto(p, "promote_create_company", frame[p])
    /\ UNCHANGED store

\* what the user answers to promote's prompts
\* what is typed at the sector prompt: a sector the prompt does not list
Gaming == <<"G", "a", "m", "i", "n", "g">>
SectorInputs == {Gaming}
ChainInputs == {<<"E", "t", "h">>}
RemoteInputs == {remote}

\* lines 186-211: no company of that name: create one
promote_create_company(p) ==
    /\ pc[p] = "promote_create_company"
    /\ \E sector \in SectorInputs, chain_focus \in ChainInputs, fails \in BOOLEAN :
        LET f == [frame[p] EXCEPT !.sector = OrNone(sector),
                                  !.chain_focus = OrNone(chain_focus)]
            new_company == NewCompany(f.dj.val, f.sector, f.chain_focus)
        IN IF create_company_raises(new_company, fails)
           THEN /\ Goto(p, "exit", [f EXCEPT !.failed = fails,
                                        !.result = <<"Error creating company">>])
                /\ UNCHANGED store
           ELSE /\ companies' = create_company(new_company)
                /\ Goto(p, "promote_create_job", [f EXCEPT !.company_id = Len(companies) + 1])
                /\ UNCHANGED <<jobs, discovered>>

\* lines 213-240: ask for the job's details and create the job
promote_create_job(p) ==
    /\ pc[p] = "promote_create_job"
    /\ \E remote_status \in RemoteInputs, fails \in BOOLEAN :
        LET new_job == NewJob(frame[p].dj.val, frame[p].company_id, remote_status)
        IN IF create_job_raises(new_job, fails)
           THEN /\ Goto(p, "exit", [frame[p] EXCEPT !.failed = fails,
                                              !.result = <<"Error creating job">>])
                /\ UNCHANGED store
           ELSE /\ jobs' = create_job(new_job)
                /\ Goto(p, "promote_update", [frame[p] EXCEPT !.job_id_new = Len(jobs) + 1])
                /\ UNCHANGED <<companies, discovered>>

\* a faulty variant: a failed update leaves the status written
promote_update_half_written(p) ==
    /\ pc[p] = "promote_update"
    /\ \E fails \in BOOLEAN :
        LET job_id == frame[p].job_id
            ref == IntV(frame[p].job_id_new)
        IN IF update_discovered_job_status_raises(job_id, "promoted", ref, fails)
           THEN /\ discovered' = update_status_column_only(job_id, "promoted", ref)
                /\ Goto(p, "exit", [frame[p] EXCEPT !.failed = fails,
                                              !.result = <<"Error creating job">>])
                /\ UNCHANGED <<companies, jobs>>
           ELSE /\ discovered' = update_discovered_job_status(job_id, "promoted", ref)
                /\ Goto(p, "exit", [frame[p] EXCEPT !.result = <<"promoted">>])
                /\ UNCHANGED <<companies, jobs>>

\* a faulty variant: the record is linked to the first job of the table
promote_update_links_first(p) ==
    /\ pc[p] = "promote_update"
    /\ \E fails \in BOOLEAN :
        IF update_discovered_job_status_raises(frame[p].job_id, "promoted", IntV(1), fails)
        THEN /\ Goto(p, "exit", [frame[p] EXCEPT !.failed = fails,
                                              !.result = <<"Error creating job">>])
             /\ UNCHANGED store
        ELSE /\ discovered' = update_discovered_job_status(frame[p].job_id, "promoted", IntV(1))
             /\ Goto(p, "exit", [frame[p] EXCEPT !.result = <<"promoted">>])
             /\ UNCHANGED <<companies, jobs>>

\* lines 242-250: mark the staged record promoted
promote_update(p) ==
    /\ pc[p] = "promote_update"
    /\ \E fails \in BOOLEAN :
        LET job_id == frame[p].job_id
            ref == IntV(frame[p].job_id_new)
        IN IF update_discovered_job_status_raises(job_id, "promoted", ref, fails)
           THEN /\ Goto(p, "exit", [frame[p] EXCEPT !.failed = fails,
                                              !.result = <<"Error creating job">>])
                /\ UNCHANGED store
           ELSE /\ discovered' = update_discovered_job_status(job_id, "promoted", ref)
                /\ Goto(p, "exit", [frame[p] EXCEPT !.result = <<"promoted">>])
                /\ UNCHANGED <<companies, jobs>>

(* ---------------------- discover dismiss (discover.py) ---------------- *)
DismissFrame(job_id) ==
    [op |-> "dismiss", job_id |-> job_id, dj |-> None, confirm |-> FALSE, result |-> <<>>]

\* lines 257-267
dismiss_begin(p) ==
    /\ pc[p] = "idle"
    /\ \E job_id \in JobIds :
        LET dj == get_discovered_job(job_id)
            f == DismissFrame(job_id)
        IN IF ~Truthy(dj)
           THEN Enter(p, "exit", [f EXCEPT !.result = <<"not found">>])
           ELSE IF dismiss_rejects(dj.val)
           THEN Enter(p, "exit", [f EXCEPT !.dj = dj, !.result = <<"already", dj.val.status>>])
           ELSE Enter(p, "dismiss_confirm", [f EXCEPT !.dj = dj])
    /\ UNCHANGED store

\* lines 269-273: an exception of the update is not caught; the process dies
dismiss_confirm(p) ==
    /\ pc[p] = "dismiss_confirm"
    /\ \E confirm \in BOOLEAN, fails \in BOOLEAN :
        LET job_id == frame[p].job_id
            f == [frame[p] EXCEPT !.confirm = confirm]
        IN IF ~confirm
           THEN /\ Goto(p, "exit", [f EXCEPT !.result = <<"Cancelled">>])
                /\ UNCHANGED store
           ELSE IF update_discovered_job_status_raises(job_id, "dismissed", None, fails)
           THEN /\ Goto(p, "exit", [f EXCEPT !.result = <<"Traceback">>])
                /\ UNCHANGED store
           ELSE /\ discovered' = update_discovered_job_status(job_id, "dismissed", None)
                /\ Goto(p, "exit", [f EXCEPT !.result = <<"Job dismissed">>])
                /\ UNCHANGED <<companies, jobs>>

(* ---------------- promote and dismiss after one cycle ----------------- *)
\* a response naming two postings without title and company
TwoBlank == Json(List(<<Blank(1), Blank(2)>>))

\* the staging table after `discover run` on an empty store: every candidate
\* of the response has a url of its own and is stored
StagedByCycle(raw_response) ==
    LET parsed_jobs == parse_jobs(raw_response).jobs
    IN [i \in DOMAIN parsed_jobs |-> DiscoveredRow(StagedJob(parsed_jobs[i], raw_response))]

PromoteInit ==
    /\ companies = <<>>
    /\ jobs = <<>>
    /\ discovered = StagedByCycle(TwoBlank)
    /\ job_skills = {}
    /\ skills = SeedSkills
    /\ applications = <<>>
    /\ interviews = <<>>
    /\ pc = [p \in Procs |-> "idle"]
    /\ frame = [p \in Procs |-> NoFrame]
    /\ pre = [p \in Procs |-> NoTables]

PromoteStep(p) ==
    \/ promote_begin(p)
    \/ promote_lookup(p)
    \/ promote_create_company(p)
    \/ promote_create_job(p)
    \/ promote_update(p)
    \/ dismiss_begin(p)
    \/ dismiss_confirm(p)
    \/ exit(p)

\* the staged records are promoted and dismissed, one command at a time
PromoteNext == PromoteStep(1)

PromoteSpec == PromoteInit /\ [][PromoteNext]_vars

\* a response naming one posting with a company name and one without
GoodAndBlank == Json(List(<<Good(1), Blank(2)>>))

ConcurrentInit ==
    /\ companies = <<>>
    /\ jobs = <<>>
    /\ \E raw_response \in {TwoBlank, GoodAndBlank} :
          discovered = StagedByCycle(raw_response)
    /\ job_skills = {}
    /\ skills = SeedSkills
    /\ applications = <<>>
    /\ interviews = <<>>
    /\ pc = [p \in Procs |-> "idle"]
    /\ frame = [p \in Procs |-> NoFrame]
    /\ pre = [p \in Procs |-> NoTables]

\* two terminals, with commands overlapping in pairs: a terminal begins a
\* command only when no finished command of the other is still on screen, and
\* a finished command stays on screen while the other terminal's is running.
\* So nothing but the two overlapping commands writes while they run, and
\* their persistence calls interleave in every order.
MayBegin(p) == \A q \in Procs \ {p} : pc[q] # "exit"
MayLeave(p) == \A q \in Procs \ {p} : pc[q] \in {"idle", "exit"}

ConcurrentStep(p) ==
    \/ MayBegin(p) /\ promote_begin(p)
    \/ promote_lookup(p)
    \/ promote_create_company(p)
    \/ promote_create_job(p)
    \/ promote_update(p)
    \/ MayBegin(p) /\ dismiss_begin(p)
    \/ dismiss_confirm(p)
    \/ MayLeave(p) /\ exit(p)

ConcurrentNext == ConcurrentStep(1) \/ ConcurrentStep(2)

ConcurrentSpec == ConcurrentInit /\ [][ConcurrentNext]_vars

(* ------------------- keeping a record for later (manual) -------------- *)
\* update_discovered_job_status(job_id, "saved"), called directly on a pending
\* record: no command of the CLI does it
save_for_later(p) ==
    /\ pc[p] = "idle"
    /\ \E job_id \in DOMAIN discovered :
        /\ discovered[job_id].status = "pending"
        /\ discovered' = update_discovered_job_status(job_id, "saved", None)
        /\ Enter(p, "exit", [op |-> "save", job_id |-> job_id, result |-> <<"saved">>])
    /\ UNCHANGED <<companies, jobs>>

(* --------------------------- specification ---------------------------- *)
Step(p) ==
    \/ company_add(p)
    \/ job_add(p)
    \/ run_begin(p)
    \/ run_search(p)
    \/ run_loop(p)
    \/ run_report(p)
    \/ promote_begin(p)
    \/ promote_lookup(p)
    \/ promote_create_company(p)
    \/ promote_create_job(p)
    \/ promote_update(p)
    \/ dismiss_begin(p)
    \/ dismiss_confirm(p)
    \/ save_for_later(p)
    \/ exit(p)

\* one operation at a time: every command runs to its end in process 1
Next == Step(1)

Spec == Init /\ [][Next]_vars

(* --------------------- skills of a job (queries.py) ------------------- *)
\* the ids of the skills seed.sql puts into the skills table
SkillIds == {1, 2}
Importances == {"required", "nice-to-have"}

\* job_skills: PRIMARY KEY (job_id, skill_id): the rows an insert of the pair collides with
JobSkillConflicts(job_id, skill_id) ==
    {r \in job_skills : r.job_id = job_id /\ r.skill_id = skill_id}

\* job_skills.job_id REFERENCES jobs(id), job_skills.skill_id REFERENCES skills(id)
JobSkillRefsValid(job_id, skill_id) == job_id \in DOMAIN jobs /\ skill_id \in SkillIds

\* a faulty variant: a plain INSERT, which a row of the same pair makes fail
add_skill_to_job_raises_on_conflict(job_id, skill_id, importance, fails) ==
    \/ fails
    \/ ~JobSkillRefsValid(job_id, skill_id)
    \/ JobSkillConflicts(job_id, skill_id) # {}

\* INSERT OR REPLACE: a row of the same pair is no error
add_skill_to_job_raises(job_id, skill_id, importance, fails) ==
    \/ fails
    \/ foreign_keys /\ ~JobSkillRefsValid(job_id, skill_id)

\* INSERT OR REPLACE INTO job_skills: the colliding rows go, the new row comes
add_skill_to_job(job_id, skill_id, importance) ==
    (job_skills \ JobSkillConflicts(job_id, skill_id))
        \cup {[job_id |-> job_id, skill_id |-> skill_id, importance |-> importance]}

\* DELETE FROM job_skills WHERE job_id = ? AND skill_id = ?
remove_skill_from_job(job_id, skill_id) ==
    {r \in job_skills : ~(r.job_id = job_id /\ r.skill_id = skill_id)}

\* p ends a skill call: the frame keeps the arguments, the table as it was
\* before the call, and whether the database failed under the call
SkillReturn(p, op, job_id, skill_id, importance, fails, result) ==
    /\ pc' = [pc EXCEPT ![p] = "exit"]
    /\ frame' = [frame EXCEPT ![p] =
                    [op |-> op, job_id |-> job_id, skill_id |-> skill_id,
                     importance |-> importance, before |-> job_skills,
                     fails |-> fails, result |-> result]]
    /\ pre' = [pre EXCEPT ![p] = Tables]
    /\ UNCHANGED <<store, skills, applications, interviews>>

\* job ids and skill ids a caller may pass: those that exist and one that does not
SkillCallJobIds == 1..(Len(jobs) + 1)
SkillCallSkillIds == SkillIds \cup {99}

add_skill_to_job_call(p) ==
    /\ pc[p] = "idle"
    /\ \E job_id \in SkillCallJobIds, skill_id \in SkillCallSkillIds,
          importance \in Importances, fails \in BOOLEAN :
        IF add_skill_to_job_raises(job_id, skill_id, importance, fails)
        THEN /\ UNCHANGED job_skills
             /\ SkillReturn(p, "add_skill_to_job", job_id, skill_id, importance, fails,
                            <<"raised">>)
        ELSE /\ job_skills' = add_skill_to_job(job_id, skill_id, importance)
             /\ SkillReturn(p, "add_skill_to_job", job_id, skill_id, importance, fails,
                            <<"returned">>)

remove_skill_from_job_call(p) ==
    /\ pc[p] = "idle"
    /\ \E job_id \in SkillCallJobIds, skill_id \in SkillCallSkillIds, fails \in BOOLEAN :
        IF fails
        THEN /\ UNCHANGED job_skills
             /\ SkillReturn(p, "remove_skill_from_job", job_id, skill_id, "", fails,
                            <<"raised">>)
        ELSE /\ job_skills' = remove_skill_from_job(job_id, skill_id)
             /\ SkillReturn(p, "remove_skill_from_job", job_id, skill_id, "", fails,
                            <<"returned">>)

\* companies and jobs are added, skills are put on the jobs and taken off
SkillNext ==
    \/ company_add(1)
    \/ job_add(1)
    \/ add_skill_to_job_call(1)
    \/ remove_skill_from_job_call(1)
    \/ exit(1)

SkillSpec == Init /\ [][SkillNext]_vars

(* -------------- the persistence layer called directly ----------------- *)
MaxRows == 2   \* a call that would make a table longer than this is not made

\* skills.name UNIQUE
SkillNameTaken(name) == \E i \in DOMAIN skills : skills[i].name = name

\* a faulty variant: INSERT OR IGNORE, which passes over a taken name
create_skill_raises_unless_taken(skill, fails) == fails

create_skill_raises(skill, fails) ==
    \/ fails
    \/ SkillNameTaken(skill.name)

\* INSERT INTO skills (name, category)
create_skill(skill) == Append(skills, skill)

\* the exception a failed statement raises: the database's own failure,
\* or else the constraint the row breaks
ErrorClass(fails) == IF fails THEN "OperationalError" ELSE "IntegrityError"

AllTables ==
    [companies |-> companies, jobs |-> jobs, discovered |-> discovered,
     skills |-> skills, applications |-> applications, interviews |-> interviews]

\* p's call ends: the frame keeps its argument, every table as it was
\* before the call, whether the database failed under it, and the outcome
CallReturn(p, op, arg, fails, result) ==
    /\ pc' = [pc EXCEPT ![p] = "exit"]
    /\ frame' = [frame EXCEPT ![p] =
                    [op |-> op, arg |-> arg, before |-> AllTables,
                     fails |-> fails, result |-> result]]
    /\ pre' = [pre EXCEPT ![p] = Tables]

Raised(fails) == <<"raised", ErrorClass(fails)>>
ReturnedId(id) == <<"returned", id>>

dbt == <<"d", "b", "t">>

create_company_call(p) ==
    /\ pc[p] = "idle"
    /\ \E name \in {Name_eT, Name_Et}, fails \in BOOLEAN :
        LET company == [name |-> Str(name), sector |-> None, chain_focus |-> None]
        IN IF create_company_raises(company, fails)
           THEN /\ CallReturn(p, "create_company", company, fails, Raised(fails))
                /\ UNCHANGED <<store, tracking>>
           ELSE /\ Len(companies) < MaxRows
                /\ companies' = create_company(company)
                /\ CallReturn(p, "create_company", company, fails,
                              ReturnedId(Len(companies) + 1))
                /\ UNCHANGED <<jobs, discovered, tracking>>

create_job_call(p) ==
    /\ pc[p] = "idle"
    /\ \E company_id \in {1, 99}, url \in {None, Str(Url(1))}, fails \in BOOLEAN :
        LET job == [company_id |-> company_id, title |-> Str(Analyst), url |-> url,
                    remote_status |-> None, source |-> None, notes |-> None,
                    status |-> "open"]
        IN IF create_job_raises(job, fails)
           THEN /\ CallReturn(p, "create_job", job, fails, Raised(fails))
                /\ UNCHANGED <<store, tracking>>
           ELSE /\ Len(jobs) < MaxRows
                /\ jobs' = create_job(job)
                /\ CallReturn(p, "create_job", job, fails, ReturnedId(Len(jobs) + 1))
                /\ UNCHANGED <<companies, discovered, tracking>>

create_discovered_job_call(p) ==
    /\ pc[p] = "idle"
    /\ \E url \in Urls, fails \in BOOLEAN :
        LET dj == [title |-> Str(Analyst), company_name |-> Str(Name_et), url |-> Str(url),
                   requirements_raw |-> None, source |-> Str(perplexity),
                   raw_response |-> None, status |-> "pending"]
        IN IF create_discovered_job_raises(dj, fails)
           THEN /\ CallReturn(p, "create_discovered_job", dj, fails, Raised(fails))
                /\ UNCHANGED <<store, tracking>>
           ELSE /\ Len(discovered) < MaxRows
                /\ discovered' = create_discovered_job(dj)
                /\ CallReturn(p, "create_discovered_job", dj, fails,
                              ReturnedId(Len(discovered) + 1))
                /\ UNCHANGED <<companies, jobs, tracking>>

create_skill_call(p) ==
    /\ pc[p] = "idle"
    /\ \E name \in {SQL, dbt}, fails \in BOOLEAN :
        LET skill == [name |-> Str(name), category |-> Str(SQL)]
        IN IF create_skill_raises(skill, fails)
           THEN /\ CallReturn(p, "create_skill", skill, fails, Raised(fails))
                /\ UNCHANGED <<store, tracking>>
           ELSE /\ Len(skills) < Len(SeedSkills) + MaxRows
                /\ skills' = create_skill(skill)
                /\ CallReturn(p, "create_skill", skill, fails, ReturnedId(Len(skills) + 1))
                /\ UNCHANGED <<store, job_skills, applications, interviews>>

\* the two dedup checks
url_check(check, url) ==
    IF check = "discovered_job_exists" THEN discovered_job_exists(url) ELSE job_url_exists(url)

\* one of the checks is called with a url
url_check_call(p) ==
    /\ pc[p] = "idle"
    /\ \E check \in {"discovered_job_exists", "job_url_exists"},
          url \in {None} \cup {Str(u) : u \in Urls} :
        /\ pc' = [pc EXCEPT ![p] = "url_check_again"]
        /\ frame' = [frame EXCEPT ![p] =
                        [op |-> check, arg |-> url, before |-> AllTables,
                         first |-> url_check(check, url)]]
        /\ pre' = [pre EXCEPT ![p] = Tables]
        /\ UNCHANGED <<store, tracking>>

\* the same check is called again with the same url
url_check_again(p) ==
    /\ pc[p] = "url_check_again"
    /\ pc' = [pc EXCEPT ![p] = "exit"]
    /\ frame' = [frame EXCEPT ![p] =
                    [op |-> frame[p].op, arg |-> frame[p].arg, before |-> frame[p].before,
                     first |-> frame[p].first,
                     result |-> url_check(frame[p].op, frame[p].arg)]]
    /\ UNCHANGED <<pre, store, tracking>>

UniqueNext ==
    \/ create_company_call(1)
    \/ create_job_call(1)
    \/ create_discovered_job_call(1)
    \/ create_skill_call(1)
    \/ url_check_call(1)
    \/ url_check_again(1)
    \/ exit(1)

UniqueSpec == Init /\ [][UniqueNext]_vars

(* ------------- jobs, applications and interviews (queries.py) --------- *)
MaxChildren == 1   \* a call that would make the interviews table longer than this is not made

create_application_raises(application, fails) ==
    \/ fails
    \/ foreign_keys /\ ~JobIdValid(application.job_id)

\* INSERT INTO applications
create_application(application) == Append(applications, application)

create_interview_raises(interview, fails) ==
    \/ fails
    \/ foreign_keys /\ ~ApplicationIdValid(interview.application_id)

\* INSERT INTO interviews
create_interview(interview) == Append(interviews, interview)

\* UPDATE ... WHERE id = ?: the table t with row id replaced by row; an id
\* that names no row changes nothing
UpdateRow(t, id, row) == [i \in DOMAIN t |-> IF i = id THEN row ELSE t[i]]

\* a constraint is checked on the rows the statement writes only
update_job_raises(id, job, fails) ==
    \/ fails
    \/ /\ id \in DOMAIN jobs
       /\ \/ foreign_keys /\ ~CompanyIdValid(job.company_id)
          \/ job.url # None /\ \E i \in DOMAIN jobs : i # id /\ jobs[i].url = job.url

update_job(id, job) == UpdateRow(jobs, id, job)

update_application_raises(id, application, fails) ==
    \/ fails
    \/ id \in DOMAIN applications /\ foreign_keys /\ ~JobIdValid(application.job_id)

update_application(id, application) == UpdateRow(applications, id, application)

update_interview_raises(id, interview, fails) ==
    \/ fails
    \/ id \in DOMAIN interviews /\ foreign_keys
          /\ ~ApplicationIdValid(interview.application_id)

update_interview(id, interview) == UpdateRow(interviews, id, interview)

\* the ids a caller passes for a parent: the first two rows' and one that names none
ParentIds == {1, 2, 99}
\* the ids a caller passes for the row to update
RowIds == {1, 99}

create_application_call(p) ==
    /\ pc[p] = "idle"
    /\ \E job_id \in ParentIds, fails \in BOOLEAN :
        LET application == [job_id |-> job_id, status |-> "applied"]
        IN IF create_application_raises(application, fails)
           THEN /\ CallReturn(p, "create_application", application, fails, Raised(fails))
                /\ UNCHANGED <<store, tracking>>
           ELSE /\ Len(applications) < MaxRows
                /\ applications' = create_application(application)
                /\ CallReturn(p, "create_application", application, fails,
                              ReturnedId(Len(applications) + 1))
                /\ UNCHANGED <<store, job_skills, skills, interviews>>

create_interview_call(p) ==
    /\ pc[p] = "idle"
    /\ \E application_id \in ParentIds, fails \in BOOLEAN :
        LET interview == [application_id |-> application_id, outcome |-> None]
        IN IF create_interview_raises(interview, fails)
           THEN /\ CallReturn(p, "create_interview", interview, fails, Raised(fails))
                /\ UNCHANGED <<store, tracking>>
           ELSE /\ Len(interviews) < MaxChildren
                /\ interviews' = create_interview(interview)
                /\ CallReturn(p, "create_interview", interview, fails,
                              ReturnedId(Len(interviews) + 1))
                /\ UNCHANGED <<store, job_skills, skills, applications>>

\* get_job, a change of the company, update_job
update_job_call(p) ==
    /\ pc[p] = "idle"
    /\ \E id \in RowIds, company_id \in ParentIds, fails \in BOOLEAN :
        LET job == IF id \in DOMAIN jobs
                   THEN [jobs[id] EXCEPT !.company_id = company_id]
                   ELSE [company_id |-> company_id]
        IN IF update_job_raises(id, job, fails)
           THEN /\ CallReturn(p, "update_job", [id |-> id, row |-> job], fails, Raised(fails))
                /\ UNCHANGED <<store, tracking>>
           ELSE /\ jobs' = update_job(id, job)
                /\ CallReturn(p, "update_job", [id |-> id, row |-> job], fails, <<"returned">>)
                /\ UNCHANGED <<companies, discovered, tracking>>

update_application_call(p) ==
    /\ pc[p] = "idle"
    /\ \E id \in RowIds, job_id \in ParentIds, fails \in BOOLEAN :
        LET application == [job_id |-> job_id, status |-> "applied"]
        IN IF update_application_raises(id, application, fails)
           THEN /\ CallReturn(p, "update_application", [id |-> id, row |-> application],
                              fails, Raised(fails))
                /\ UNCHANGED <<store, tracking>>
           ELSE /\ applications' = update_application(id, application)
                /\ CallReturn(p, "update_application", [id |-> id, row |-> application],
                              fails, <<"returned">>)
                /\ UNCHANGED <<store, job_skills, skills, interviews>>

update_interview_call(p) ==
    /\ pc[p] = "idle"
    /\ \E id \in RowIds, application_id \in ParentIds, fails \in BOOLEAN :
        LET interview == [application_id |-> application_id, outcome |-> None]
        IN IF update_interview_raises(id, interview, fails)
           THEN /\ CallReturn(p, "update_interview", [id |-> id, row |-> interview],
                              fails, Raised(fails))
                /\ UNCHANGED <<store, tracking>>
           ELSE /\ interviews' = update_interview(id, interview)
                /\ CallReturn(p, "update_interview", [id |-> id, row |-> interview],
                              fails, <<"returned">>)
                /\ UNCHANGED <<store, job_skills, skills, applications>>

RefNext ==
    \/ create_company_call(1)
    \/ create_job_call(1)
    \/ create_application_call(1)
    \/ create_interview_call(1)
    \/ update_job_call(1)
    \/ update_application_call(1)
    \/ update_interview_call(1)
    \/ exit(1)

RefSpec == Init /\ [][RefNext]_vars

(* ------------------------- the parser on its own ---------------------- *)
MaxElements == 2   \* the JSON arrays handed to the parser have at most this many elements

\* what an element of the array can be
Elements ==
    {Good(1), Blank(2), ListReq(1), BadUrl, NoUrl, MissingUrl, EmptyUrl, IntUrl, Str(SQL)}

Arrays == UNION {[1..k -> Elements] : k \in 0..MaxElements}

NoJsonHere == <<"n", "o", " ", "j", "s", "o", "n", " ", "h", "e", "r", "e">>
LongText == [i \in 1..501 |-> "x"]
Prose == <<"J", "o", "b", "s", ":", " ", "[", ".", ".", ".", "]">>
TrailingComma == <<"[", "{", "}", ",", "]">>   \* an array spoilt by a trailing comma

\* the texts handed to the parser
ParserInputs ==
    {Json(List(a)) : a \in Arrays}
    \cup {Json(Good(1)), Json(IntV(0)), Json(None), Json(Str(SQL))}
    \cup {Text(<<>>), Text(<<" ">>), Text(NoJsonHere), Text(LongText)}
    \cup {Mixed(Prose, <<Json(List(<<Good(1)>>))>>, <<Json(List(<<Good(1)>>))>>),
          Mixed(Prose, <<Text(NoJsonHere), Json(List(<<Good(2)>>))>>, <<>>),
          Mixed(Prose, <<Text(NoJsonHere)>>, <<Json(List(<<Good(2), BadUrl>>))>>),
          Mixed(Prose, <<>>, <<Json(List(<<>>))>>),
          Mixed(Prose, <<Text(<<>>)>>, <<Text(NoJsonHere)>>),
          Mixed(LongText, <<>>, <<Text(NoJsonHere)>>),
          Mixed(TrailingComma, <<>>, <<Text(TrailingComma)>>)}

ParserInit ==
    /\ companies = <<>>
    /\ jobs = <<>>
    /\ discovered = <<>>
    /\ job_skills = {}
    /\ skills = SeedSkills
    /\ applications = <<>>
    /\ interviews = <<>>
    /\ pre = [p \in Procs |-> NoTables]
    /\ \E raw_response \in ParserInputs :
          /\ pc = [p \in Procs |-> IF p = 1 THEN "parse_jobs" ELSE "idle"]
          /\ frame = [p \in Procs |->
                         IF p = 1
                         THEN [op |-> "parse_jobs", raw_response |-> raw_response,
                               raised |-> FALSE, jobs |-> <<>>]
                         ELSE NoFrame]

\* one call of parse_jobs: it returns a list or raises
parse_jobs_call(p) ==
    /\ pc[p] = "parse_jobs"
    /\ LET parsed == parse_jobs(frame[p].raw_response)
       IN Goto(p, IF parsed.raised THEN "raised" ELSE "returned",
               [frame[p] EXCEPT !.raised = parsed.raised, !.jobs = parsed.jobs])
    /\ UNCHANGED store

ParserNext == parse_jobs_call(1)

ParserSpec == ParserInit /\ [][ParserNext]_vars

(* ----------------------------- properties ----------------------------- *)
\* Letter case as a reader understands it: the 26 ASCII letters and the
\* accented capital fold to their small letters.
CaseFoldChar(c) == IF c = "U+00C9" THEN "U+00E9" ELSE LowerChar(c)
CaseFold(v) ==
    IF v.kind = "str" THEN Str([i \in 1..Len(v.val) |-> CaseFoldChar(v.val[i])]) ELSE v

\* p's command `op` has ended; frame[p] and pre[p] still describe it
AtExit(p, op) == pc[p] = "exit" /\ frame[p].op = op

\* the staged record p's promote / dismiss names, as it was when the command started
PreDj(p) == pre[p].discovered[frame[p].job_id]
Named(p) == frame[p].job_id \in DOMAIN pre[p].discovered
WasPending(p) == Named(p) /\ PreDj(p).status = "pending"

\* the companies of the starting tables whose name equals the record's, up to letter case
Matching(p) ==
    {c \in DOMAIN pre[p].companies :
        CaseFold(pre[p].companies[c].name) = CaseFold(PreDj(p).company_name)}

\* C1: promote on a record that is not pending ends with "already <status>",
\* creates no company and no job, and leaves the record as it was.
C1_PromoteNonPending ==
    \A p \in Procs :
        (AtExit(p, "promote") /\ Named(p) /\ PreDj(p).status # "pending")
        => /\ frame[p].result = <<"already", PreDj(p).status>>
           /\ companies = pre[p].companies
           /\ jobs = pre[p].jobs
           /\ discovered[frame[p].job_id] = PreDj(p)

C1_Witness ==
    \E p \in Procs :
        /\ AtExit(p, "promote")
        /\ Named(p)
        /\ PreDj(p).status = "dismissed"
        /\ frame[p].result = <<"already", "dismissed">>

\* C2: in every state, intermediate ones included, a staged record has
\* promoted_to_job_id set exactly when its status is "promoted".
C2_PromotedIffLinked ==
    \A i \in DOMAIN discovered :
        (discovered[i].promoted_to_job_id # None) <=> (discovered[i].status = "promoted")

C2_Witness ==
    \E i \in DOMAIN discovered :
        /\ discovered[i].status = "promoted"
        /\ discovered[i].promoted_to_job_id = IntV(Len(jobs))
        /\ jobs[Len(jobs)].url = discovered[i].url

PromoteErrors == {<<"Error creating company">>, <<"Error creating job">>}

\* C3: a promote that did not succeed leaves the staging table as it was; when
\* one of its persistence steps failed, it ended with an error and the record
\* is still pending with promoted_to_job_id unset.
C3_PromoteAbortKeepsPending ==
    \A p \in Procs :
        AtExit(p, "promote")
        => /\ frame[p].result # <<"promoted">> => discovered = pre[p].discovered
           /\ frame[p].result \in PromoteErrors
                  => /\ discovered[frame[p].job_id].status = "pending"
                     /\ discovered[frame[p].job_id].promoted_to_job_id = None

\* the update of the staged record failed after the job had been created
C3_Witness ==
    \E p \in Procs :
        /\ AtExit(p, "promote")
        /\ frame[p].result = <<"Error creating job">>
        /\ Len(jobs) = Len(pre[p].jobs) + 1
        /\ discovered[frame[p].job_id].status = "pending"

\* what a successful promote with no matching company leaves behind, given the
\* name and the title the new rows are to carry
PromotedWithNewCompany(p, name, title) ==
    LET c == Len(companies)
        j == Len(jobs)
    IN /\ c = Len(pre[p].companies) + 1
       /\ SubSeq(companies, 1, c - 1) = pre[p].companies
       /\ companies[c] = [name |-> name, sector |-> frame[p].sector,
                          chain_focus |-> frame[p].chain_focus]
       /\ j = Len(pre[p].jobs) + 1
       /\ SubSeq(jobs, 1, j - 1) = pre[p].jobs
       /\ jobs[j].company_id = c
       /\ jobs[j].title = title
       /\ jobs[j].url = PreDj(p).url
       /\ jobs[j].status = "open"
       /\ discovered[frame[p].job_id].status = "promoted"
       /\ discovered[frame[p].job_id].promoted_to_job_id = IntV(j)

PromotedNoMatch(p) ==
    /\ AtExit(p, "promote")
    /\ frame[p].result = <<"promoted">>
    /\ WasPending(p)
    /\ Matching(p) = {}

\* C4 as stated: the new company carries the discovered name and the new job the
\* discovered title.
C4_AsStated ==
    \A p \in Procs :
        PromotedNoMatch(p)
        => PromotedWithNewCompany(p, PreDj(p).company_name, PreDj(p).title)

\* C4: a successful promote of a pending record whose company matches none
\* creates exactly one company (the discovered name, or "Unknown" when that is
\* empty; the supplied sector and chain focus) and exactly one job under it (the
\* discovered title, or "Unknown" when that is empty; the discovered url; status
\* "open"), and the record ends promoted and linked to the new job.
C4_PromoteCreatesCompanyAndJob ==
    \A p \in Procs :
        PromotedNoMatch(p)
        => PromotedWithNewCompany(p, Or(PreDj(p).company_name, Str(Unknown)),
                                     Or(PreDj(p).title, Str(Unknown)))

\* a record staged with an empty title and an empty company has been promoted
C4_Witness ==
    \E p \in Procs :
        /\ PromotedNoMatch(p)
        /\ PreDj(p).company_name = Str(<<>>)
        /\ PreDj(p).title = Str(<<>>)
        /\ companies[Len(companies)].name = Str(Unknown)
        /\ jobs[Len(jobs)].title = Str(Unknown)

\* C5 as stated: when the record's company name equals an existing company's up
\* to letter case, promote creates no company, and the job it creates is under
\* such a company.
C5_AsStated ==
    \A p \in Procs :
        (AtExit(p, "promote") /\ WasPending(p) /\ Matching(p) # {})
        => /\ Len(companies) = Len(pre[p].companies)
           /\ Len(jobs) > Len(pre[p].jobs) => jobs[Len(jobs)].company_id \in Matching(p)

\* C6: dismiss on a pending record changes no company, no job and no other
\* staged record; confirmed, it sets the record's status to "dismissed" and
\* nothing else of it (or dies on a failing update, nothing written);
\* declined, it changes nothing.
C6_DismissFrame ==
    \A p \in Procs :
        (AtExit(p, "dismiss") /\ WasPending(p))
        => LET id == frame[p].job_id IN
           /\ companies = pre[p].companies
           /\ jobs = pre[p].jobs
           /\ DOMAIN discovered = DOMAIN pre[p].discovered
           /\ \A i \in DOMAIN discovered : i # id => discovered[i] = pre[p].discovered[i]
           /\ frame[p].result \in {<<"Job dismissed">>, <<"Cancelled">>, <<"Traceback">>}
           /\ frame[p].result = <<"Job dismissed">>
                  => /\ frame[p].confirm
                     /\ discovered[id] = [PreDj(p) EXCEPT !.status = "dismissed"]
           /\ frame[p].result = <<"Cancelled">>
                  => ~frame[p].confirm /\ discovered[id] = PreDj(p)
           /\ frame[p].result = <<"Traceback">>
                  => frame[p].confirm /\ discovered[id] = PreDj(p)

\* a confirmed dismiss while another record is staged
C6_Witness ==
    \E p \in Procs :
        /\ AtExit(p, "dismiss")
        /\ WasPending(p)
        /\ frame[p].result = <<"Job dismissed">>
        /\ \E i \in DOMAIN discovered : i # frame[p].job_id /\ discovered[i].status = "pending"

\* C7: no step changes the status or the promoted_to_job_id of a record that is
\* promoted or dismissed.
C7_TerminalStatuses ==
    [][\A i \in DOMAIN discovered :
          discovered[i].status \in {"promoted", "dismissed"}
          => /\ i \in DOMAIN discovered'
             /\ discovered'[i].status = discovered[i].status
             /\ discovered'[i].promoted_to_job_id = discovered[i].promoted_to_job_id]_vars

\* a dismiss was tried on a promoted record
C7_Witness ==
    \E p \in Procs :
        /\ AtExit(p, "dismiss")
        /\ Named(p)
        /\ frame[p].result = <<"already", "promoted">>
        /\ discovered[frame[p].job_id].status = "promoted"

(* --------------------- properties of a discovery cycle ---------------- *)
\* p's step handles one candidate of the storing loop
RunIter(p) == pc[p] = "run_loop" /\ pc'[p] = "run_loop"

\* the candidate that step handles
Candidate(p) == frame[p].jobs[frame[p].i]

\* the step adds one to the named counter and leaves the other two alone
Counted(p, counter) ==
    /\ frame'[p].new_count = frame[p].new_count + (IF counter = "new" THEN 1 ELSE 0)
    /\ frame'[p].dup_count = frame[p].dup_count + (IF counter = "duplicate" THEN 1 ELSE 0)
    /\ frame'[p].error_count = frame[p].error_count + (IF counter = "error" THEN 1 ELSE 0)

Sum(f) == f.new_count + f.dup_count + f.error_count

\* C8: each candidate of the storing loop adds one to exactly one of the three
\* counters, and when the cycle reports, new + duplicate + error is the number
\* of candidates the parser returned.
C8_CountersSum ==
    [][\A p \in Procs :
          /\ RunIter(p)
                => /\ frame'[p].i = frame[p].i + 1
                   /\ frame'[p].jobs = frame[p].jobs
                   /\ \E counter \in {"new", "duplicate", "error"} : Counted(p, counter)
          /\ (pc[p] = "run_loop" /\ pc'[p] = "exit")
                => /\ frame'[p].result = <<"Results">>
                   /\ Sum(frame'[p]) = Len(frame'[p].jobs)]_vars

\* a cycle of two candidates has reported one new and one error
C8_Witness ==
    \E p \in Procs :
        /\ AtExit(p, "run")
        /\ frame[p].result = <<"Results">>
        /\ Len(frame[p].jobs) = 2
        /\ frame[p].new_count = 1
        /\ frame[p].error_count = 1
        /\ frame[p].dup_count = 0

\* as the claims word the loop's tests
HasNoUrl(job) == job.url = None \/ job.url = Str(<<>>)
UrlKnown(url) ==
    \/ \E i \in DOMAIN discovered : discovered[i].url = url
    \/ \E j \in DOMAIN jobs : jobs[j].url = url
NothingStored == store' = store

\* the step stores exactly one record, made of the candidate and the cycle's response
StoredOne(p) ==
    /\ companies' = companies
    /\ jobs' = jobs
    /\ discovered' = Append(discovered,
           [title |-> Candidate(p).title,
            company_name |-> Candidate(p).company,
            url |-> Candidate(p).url,
            requirements_raw |-> Candidate(p).requirements,
            source |-> Str(perplexity),
            raw_response |-> frame[p].raw_response,
            status |-> "pending",
            promoted_to_job_id |-> None])

\* a field SQLite cannot store: a JSON array or object where text is expected
Unstorable(job) ==
    \E v \in {job.title, job.company, job.requirements} : v.kind \in {"list", "dict"}

\* C9 as stated: a candidate that is neither flagged, nor without url, nor known
\* is always stored.
C9_AsStated ==
    [][\A p \in Procs :
          RunIter(p)
          => IF Candidate(p).parse_error THEN Counted(p, "error") /\ NothingStored
             ELSE IF HasNoUrl(Candidate(p)) THEN Counted(p, "error") /\ NothingStored
             ELSE IF UrlKnown(Candidate(p).url) THEN Counted(p, "duplicate") /\ NothingStored
             ELSE Counted(p, "new") /\ StoredOne(p)]_vars

\* C9: each candidate is handled by the first rule that applies: flagged as a
\* parse error -> error, nothing stored; no url -> error, nothing stored; url
\* known among the staged records or the jobs -> duplicate, nothing stored;
\* otherwise either exactly one pending record is stored (the candidate's
\* title, company, url, requirements, the full response) and counted new, or
\* storing it fails, which counts an error and stores nothing; storing always
\* fails when a field is a JSON array or object.
C9_CandidateRules ==
    [][\A p \in Procs :
          RunIter(p)
          => IF Candidate(p).parse_error THEN Counted(p, "error") /\ NothingStored
             ELSE IF HasNoUrl(Candidate(p)) THEN Counted(p, "error") /\ NothingStored
             ELSE IF UrlKnown(Candidate(p).url) THEN Counted(p, "duplicate") /\ NothingStored
             ELSE IF Unstorable(Candidate(p)) THEN Counted(p, "error") /\ NothingStored
             ELSE \/ Counted(p, "new") /\ StoredOne(p)
                  \/ Counted(p, "error") /\ NothingStored]_vars

\* the first candidate had its requirements as a JSON array: counted as an
\* error, nothing stored
C9_Witness ==
    \E p \in Procs :
        /\ pc[p] = "run_loop"
        /\ frame[p].i = 2
        /\ frame[p].jobs[1].requirements.kind = "list"
        /\ ~frame[p].jobs[1].parse_error
        /\ frame[p].error_count = 1
        /\ discovered = <<>>

UniqueUrls ==
    \A i, j \in DOMAIN discovered : i # j => discovered[i].url # discovered[j].url

\* the candidate's url occurs at an earlier place of the same response
SeenEarlier(p) ==
    \E m \in 1..(frame[p].i - 1) : frame[p].jobs[m].url = Candidate(p).url

\* this cycle has staged a record with the candidate's url
StagedThisCycle(p) ==
    \E k \in DOMAIN discovered :
        /\ k \notin DOMAIN pre[p].discovered
        /\ discovered[k].url = Candidate(p).url

\* the candidate carries a url and is the first of its response to carry it
FirstOccurrence(p) ==
    /\ ~Candidate(p).parse_error
    /\ ~HasNoUrl(Candidate(p))
    /\ ~SeenEarlier(p)

\* C10 as stated: of two candidates with the same url, new to both tables, the
\* first is staged and the second is counted as duplicate.
C10_AsStated ==
    [][/\ UniqueUrls'
       /\ \A p \in Procs :
             RunIter(p)
             => /\ discovered' # discovered => ~UrlKnown(Candidate(p).url)
                /\ (FirstOccurrence(p) /\ ~UrlKnown(Candidate(p).url))
                      => Counted(p, "new") /\ StoredOne(p)
                /\ (~HasNoUrl(Candidate(p)) /\ SeenEarlier(p))
                      => Counted(p, "duplicate") /\ NothingStored]_vars

\* C10: no two staged records share a url; a cycle stages a candidate only if
\* its url is in neither table when it is checked; the first candidate with a
\* url new to both tables is staged unless storing it fails; a candidate whose
\* url this cycle has already staged is counted as duplicate.
C10_UrlUniqueness ==
    [][/\ UniqueUrls'
       /\ \A p \in Procs :
             RunIter(p)
             => /\ discovered' # discovered => ~UrlKnown(Candidate(p).url)
                /\ (FirstOccurrence(p) /\ ~UrlKnown(Candidate(p).url))
                      => \/ Counted(p, "new") /\ StoredOne(p)
                         \/ Counted(p, "error") /\ NothingStored
                /\ (~HasNoUrl(Candidate(p)) /\ SeenEarlier(p) /\ StagedThisCycle(p))
                      => Counted(p, "duplicate") /\ NothingStored]_vars

\* one response named the same url twice: the first was staged, the second
\* counted as duplicate
C10_Witness ==
    \E p \in Procs :
        /\ AtExit(p, "run")
        /\ frame[p].result = <<"Results">>
        /\ Len(frame[p].jobs) = 2
        /\ frame[p].jobs[1].url = frame[p].jobs[2].url
        /\ frame[p].new_count = 1
        /\ frame[p].dup_count = 1
        /\ Len(discovered) = Len(pre[p].discovered) + 1

(* ------------------------ properties of the parser -------------------- *)
\* the call of parse_jobs has ended, by a return or by an exception
ParserDone(p) == frame[p].op = "parse_jobs" /\ pc[p] \in {"returned", "raised"}
Returned(p) == frame[p].op = "parse_jobs" /\ pc[p] = "returned"

\* C11 as stated: whatever the text, parse_jobs returns a non-empty list and
\* does not raise.
C11_AsStated ==
    \A p \in Procs :
        ParserDone(p) => pc[p] = "returned" /\ frame[p].jobs # <<>>

IsText(v) == v.kind = "str"
HasScheme(v) == IsText(v) /\ (startswith(v.val, Http) \/ startswith(v.val, Https))

\* a job object as the service is asked to write it: title, company, url and
\* requirements are texts, the url an http(s) link
WellFormedJob(v) ==
    /\ v.kind = "dict"
    /\ {"title", "company", "url", "requirements"} \subseteq DOMAIN v.val
    /\ IsText(v.val.title) /\ IsText(v.val.company) /\ IsText(v.val.requirements)
    /\ HasScheme(v.val.url)

WellFormedArray(raw) ==
    /\ raw.form = "json"
    /\ raw.value.kind = "list"
    /\ \A i \in DOMAIN raw.value.val : WellFormedJob(raw.value.val[i])

\* one candidate per element, in order, none flagged
OnePerElement(p) ==
    LET array == frame[p].raw_response.value.val IN
    /\ Len(frame[p].jobs) = Len(array)
    /\ \A i \in DOMAIN array :
          /\ ~frame[p].jobs[i].parse_error
          /\ frame[p].jobs[i].title = array[i].val.title
          /\ frame[p].jobs[i].company = array[i].val.company
          /\ frame[p].jobs[i].url = array[i].val.url
          /\ frame[p].jobs[i].requirements = array[i].val.requirements

\* C12 as stated: an array of well-formed job objects of any length, zero
\* included, gives one unflagged candidate per element.
C12_AsStated ==
    \A p \in Procs :
        (ParserDone(p) /\ WellFormedArray(frame[p].raw_response))
        => Returned(p) /\ OnePerElement(p)

\* C12: a non-empty array of well-formed job objects gives exactly one candidate
\* per element, each with parse_error false; the empty array gives the single
\* synthetic parse-error candidate "No valid jobs found in response".
C12_OneCandidatePerElement ==
    \A p \in Procs :
        (ParserDone(p) /\ WellFormedArray(frame[p].raw_response))
        => /\ Returned(p)
           /\ IF frame[p].raw_response.value.val # <<>>
              THEN OnePerElement(p)
              ELSE frame[p].jobs =
                      <<[title |-> Str(ParseErrorTitle), company |-> Str(Unknown),
                         url |-> None, requirements |-> Str(NoValidJobs),
                         parse_error |-> TRUE]>>

C12_Witness ==
    \E p \in Procs :
        /\ Returned(p)
        /\ WellFormedArray(frame[p].raw_response)
        /\ Len(frame[p].raw_response.value.val) = 2
        /\ Len(frame[p].jobs) = 2

\* C13 as stated: every candidate whose url does not start with http:// or
\* https:// - a missing, null or empty one included - has url absent and
\* parse_error true.
C13_AsStated ==
    \A p \in Procs :
        Returned(p)
        => \A i \in DOMAIN frame[p].jobs :
              ~HasScheme(frame[p].jobs[i].url)
              => frame[p].jobs[i].url = None /\ frame[p].jobs[i].parse_error

\* the input is a JSON array of objects, so that candidate i comes from element i
ArrayOfObjects(raw) ==
    /\ raw.form = "json"
    /\ raw.value.kind = "list"
    /\ raw.value.val # <<>>
    /\ \A i \in DOMAIN raw.value.val : raw.value.val[i].kind = "dict"

UrlOf(v) == IF "url" \in DOMAIN v.val THEN v.val.url ELSE None

\* C13: a candidate whose url is a non-empty text that does not start with
\* http:// or https:// has url absent and parse_error true, whatever its other
\* fields; a candidate whose url is missing, null or empty keeps that url and
\* has parse_error false; a url with a scheme is kept, parse_error false.
C13_UrlValidation ==
    \A p \in Procs :
        (Returned(p) /\ ArrayOfObjects(frame[p].raw_response))
        => LET array == frame[p].raw_response.value.val IN
           /\ Len(frame[p].jobs) = Len(array)
           /\ \A i \in DOMAIN array :
                 IF IsText(UrlOf(array[i])) /\ UrlOf(array[i]).val # <<>>
                    /\ ~HasScheme(UrlOf(array[i]))
                 THEN frame[p].jobs[i].url = None /\ frame[p].jobs[i].parse_error
                 ELSE frame[p].jobs[i].url = UrlOf(array[i]) /\ ~frame[p].jobs[i].parse_error

C13_Witness ==
    \E p \in Procs :
        /\ Returned(p)
        /\ frame[p].raw_response = Json(List(<<BadUrl, EmptyUrl>>))
        /\ frame[p].jobs[1].url = None /\ frame[p].jobs[1].parse_error
        /\ frame[p].jobs[2].url = Str(<<>>) /\ ~frame[p].jobs[2].parse_error

\* the text is no JSON document and no code block or bracketed part of it is one
NoJsonFound(raw) ==
    \/ raw.form = "text"
    \/ /\ raw.form = "mixed"
       /\ \A i \in DOMAIN raw.blocks : raw.blocks[i].form # "json"
       /\ \A i \in DOMAIN raw.spans : raw.spans[i].form # "json"

FirstChars(s, n) == [i \in 1..(IF Len(s) < n THEN Len(s) ELSE n) |-> s[i]]

\* C14: a text in which no JSON is found gives exactly one candidate, with
\* parse_error true, url absent and the first 500 characters of the text as
\* requirements; the empty text gives the requirements "Empty response".
C14_NoJsonGivesSyntheticError ==
    \A p \in Procs :
        (ParserDone(p) /\ NoJsonFound(frame[p].raw_response))
        => /\ Returned(p)
           /\ Len(frame[p].jobs) = 1
           /\ frame[p].jobs[1].parse_error
           /\ frame[p].jobs[1].url = None
           /\ frame[p].jobs[1].requirements =
                 IF frame[p].raw_response.chars = <<>>
                 THEN Str(EmptyResponse)
                 ELSE Str(FirstChars(frame[p].raw_response.chars, 500))

\* a text of 501 characters was cut to 500
C14_Witness ==
    \E p \in Procs :
        /\ Returned(p)
        /\ NoJsonFound(frame[p].raw_response)
        /\ Len(frame[p].raw_response.chars) = 501
        /\ Len(frame[p].jobs[1].requirements.val) = 500

\* C15 as stated: a non-empty text that does not decode as JSON gives a single
\* synthetic candidate whose requirements embed the decoder's error message.
C15_AsStated ==
    \A p \in Procs :
        (ParserDone(p) /\ NoJsonFound(frame[p].raw_response)
           /\ frame[p].raw_response.chars # <<>>)
        => /\ Returned(p)
           /\ Len(frame[p].jobs) = 1
           /\ frame[p].jobs[1].parse_error
           /\ IsText(frame[p].jobs[1].requirements)
           /\ startswith(frame[p].jobs[1].requirements.val, JsonDecodeError)

(* ------------------- properties of a cycle's failures ----------------- *)
KeyNotSet == <<"PERPLEXITY_API_KEY not set">>

\* C16: a cycle started without the credential ends with the configuration
\* error at once: no request has been sent, the parser has not been called,
\* the loop has not been entered and the tables are as they were.
C16_NoCredentialFailsFast ==
    \A p \in Procs :
        (frame[p].op = "run" /\ ~frame[p].api_key)
        => /\ pc[p] = "exit"
           /\ frame[p].result = KeyNotSet
           /\ ~frame[p].requested
           /\ ~frame[p].parsed
           /\ frame[p].i = 1
           /\ Tables = pre[p]

\* the credential was missing while a record was staged
C16_Witness ==
    \E p \in Procs :
        /\ AtExit(p, "run")
        /\ ~frame[p].api_key
        /\ frame[p].result = KeyNotSet
        /\ discovered # <<>>

\* the reason search_jobs is to give for each way a request fails
ReasonOf(kind) ==
    CASE kind = "timeout" -> "API request timed out"
      [] kind = "http" -> "HTTP error"
      [] kind = "transport" -> "Request failed"
      [] kind = "unexpected" -> "Unexpected error"

\* C17: a failed request gets the one reason of its kind (timeout, HTTP error,
\* transport failure, unexpected exception), the cycle ends there with that
\* error, the parser is not called and nothing is staged; the parser is called
\* and records are staged only after a successful request.
C17_FailedSearchAborts ==
    \A p \in Procs :
        (frame[p].op = "run" /\ frame[p].reply # NoReply)
        => /\ frame[p].success <=> frame[p].reply.kind = "ok"
           /\ ~frame[p].success
                 => /\ pc[p] = "exit"
                    /\ frame[p].error[1] = ReasonOf(frame[p].reply.kind)
                    /\ frame[p].result = <<"Error">> \o frame[p].error
                    /\ ~frame[p].parsed
                    /\ Tables = pre[p]
           /\ frame[p].parsed => frame[p].success
           /\ discovered # pre[p].discovered => frame[p].success

\* the request timed out while a record was staged
C17_Witness ==
    \E p \in Procs :
        /\ AtExit(p, "run")
        /\ frame[p].reply.kind = "timeout"
        /\ frame[p].result = <<"Error", "API request timed out">>
        /\ discovered # <<>>

\* C18 as stated: after an HTTP error answer the failure carries the status
\* code in its reason and the answer's body as raw_response.
C18_AsStated ==
    \A p \in Procs :
        (frame[p].op = "run" /\ frame[p].reply.kind = "http")
        => /\ frame[p].error = <<"HTTP error", IntV(frame[p].reply.status_code)>>
           /\ frame[p].raw_response = frame[p].reply.text

\* the candidate passes the loop's three tests
PassesTests(p) ==
    /\ ~Candidate(p).parse_error
    /\ ~HasNoUrl(Candidate(p))
    /\ ~UrlKnown(Candidate(p).url)

\* C19: a candidate whose insert fails is counted as an error and not stored,
\* the records staged so far stay, and the loop goes on to the next candidate:
\* the cycle ends only when every candidate has been handled.
C19_PersistenceErrorIsLocal ==
    [][\A p \in Procs :
          /\ (RunIter(p) /\ PassesTests(p) /\ ~StoredOne(p))
                => /\ Counted(p, "error")
                   /\ NothingStored
                   /\ frame'[p].i = frame[p].i + 1
          /\ (RunIter(p) /\ PassesTests(p) /\ Unstorable(Candidate(p))) => ~StoredOne(p)
          /\ (pc[p] = "run_loop" /\ pc'[p] # "run_loop")
                => /\ frame[p].i = Len(frame[p].jobs) + 1
                   /\ frame'[p].result = <<"Results">>
                   /\ NothingStored]_vars

\* the third candidate could not be stored after the first had been staged,
\* and the cycle has reported
C19_Witness ==
    \E p \in Procs :
        /\ AtExit(p, "run")
        /\ frame[p].result = <<"Results">>
        /\ Len(frame[p].jobs) = 3
        /\ Unstorable(frame[p].jobs[3])
        /\ frame[p].new_count = 1
        /\ frame[p].dup_count = 1
        /\ frame[p].error_count = 1
        /\ Len(discovered) = Len(pre[p].discovered) + 1

(* ------------------------ properties of job skills -------------------- *)
SamePair(r, job_id, skill_id) == r.job_id = job_id /\ r.skill_id = skill_id

\* the rows of other pairs are as they were before p's call
OtherPairsKept(p) ==
    {r \in job_skills : ~SamePair(r, frame[p].job_id, frame[p].skill_id)}
        = {r \in frame[p].before : ~SamePair(r, frame[p].job_id, frame[p].skill_id)}

\* C20: job_skills never holds two rows of one (job_id, skill_id); an add of a
\* pair that is already there does not fail and leaves exactly the row with
\* the importance of this add; a remove leaves no row of the pair; the rows
\* of other pairs stay.
C20_SkillUpsert ==
    /\ \A r1, r2 \in job_skills :
          (r1.job_id = r2.job_id /\ r1.skill_id = r2.skill_id) => r1 = r2
    /\ \A p \in Procs :
          /\ AtExit(p, "add_skill_to_job")
                => /\ OtherPairsKept(p)
                   /\ ((\E r \in frame[p].before : SamePair(r, frame[p].job_id, frame[p].skill_id))
                         /\ ~frame[p].fails)
                         => frame[p].result = <<"returned">>
                   /\ frame[p].result = <<"returned">>
                         => {r \in job_skills : SamePair(r, frame[p].job_id, frame[p].skill_id)}
                               = {[job_id |-> frame[p].job_id, skill_id |-> frame[p].skill_id,
                                   importance |-> frame[p].importance]}
                   /\ frame[p].result = <<"raised">> => job_skills = frame[p].before
          /\ AtExit(p, "remove_skill_from_job")
                => /\ OtherPairsKept(p)
                   /\ ~frame[p].fails => frame[p].result = <<"returned">>
                   /\ frame[p].result = <<"returned">>
                         => ~\E r \in job_skills : SamePair(r, frame[p].job_id, frame[p].skill_id)
                   /\ frame[p].result = <<"raised">> => job_skills = frame[p].before

\* a pair tagged "required" has been added again as "nice-to-have" while
\* another skill is on the job
C20_Witness ==
    \E p \in Procs :
        /\ AtExit(p, "add_skill_to_job")
        /\ frame[p].result = <<"returned">>
        /\ frame[p].importance = "nice-to-have"
        /\ [job_id |-> frame[p].job_id, skill_id |-> frame[p].skill_id,
            importance |-> "required"] \in frame[p].before
        /\ Cardinality(job_skills) = 2
        /\ Cardinality(frame[p].before) = 2

(* ------------------ properties of the persistence layer --------------- *)
\* the key of the row p's create call was given is held by a row that was
\* there before the call
KeyTakenBefore(p) ==
    LET b == frame[p].before
        a == frame[p].arg
    IN CASE frame[p].op = "create_company" ->
                \E i \in DOMAIN b.companies : b.companies[i].name = a.name
         [] frame[p].op = "create_job" ->
                a.url # None /\ \E i \in DOMAIN b.jobs : b.jobs[i].url = a.url
         [] frame[p].op = "create_discovered_job" ->
                \E i \in DOMAIN b.discovered : b.discovered[i].url = a.url
         [] frame[p].op = "create_skill" ->
                \E i \in DOMAIN b.skills : b.skills[i].name = a.name
         [] OTHER -> FALSE

CreateOps == {"create_company", "create_job", "create_discovered_job", "create_skill"}

NoTwoRowsShareAKey ==
    /\ \A i, j \in DOMAIN companies : i # j => companies[i].name # companies[j].name
    /\ \A i, j \in DOMAIN jobs :
          (i # j /\ jobs[i].url # None) => jobs[i].url # jobs[j].url
    /\ \A i, j \in DOMAIN discovered : i # j => discovered[i].url # discovered[j].url
    /\ \A i, j \in DOMAIN skills : i # j => skills[i].name # skills[j].name

\* C21: a create call whose company name, non-null job url, discovered-job
\* url or skill name is already stored raises (the constraint error, unless
\* the database itself failed) and leaves every table as it was, so no two
\* rows ever share such a key; a job without a url is stored next to other
\* jobs without a url.
C21_UniqueKeys ==
    /\ NoTwoRowsShareAKey
    /\ \A p \in Procs :
          (pc[p] = "exit" /\ frame[p].op \in CreateOps)
              => /\ KeyTakenBefore(p)
                    => /\ frame[p].result[1] = "raised"
                       /\ ~frame[p].fails => frame[p].result = <<"raised", "IntegrityError">>
                 /\ frame[p].result[1] = "raised" => AllTables = frame[p].before
                 /\ (/\ frame[p].op = "create_job"
                     /\ frame[p].arg.url = None
                     /\ frame[p].arg.company_id \in DOMAIN frame[p].before.companies
                     /\ ~frame[p].fails)
                    => /\ frame[p].result[1] = "returned"
                       /\ jobs = Append(frame[p].before.jobs, frame[p].arg)

\* two jobs without a url are stored, and a second company of a stored name
\* has just been refused
C21_Witness ==
    \E p \in Procs :
        /\ AtExit(p, "create_company")
        /\ KeyTakenBefore(p)
        /\ frame[p].result = <<"raised", "IntegrityError">>
        /\ Len(jobs) = 2
        /\ jobs[1].url = None
        /\ jobs[2].url = None

\* the parent the row of p's create call names was not there before the call
ParentMissingBefore(p) ==
    LET b == frame[p].before
        a == frame[p].arg
    IN CASE frame[p].op = "create_job" -> a.company_id \notin DOMAIN b.companies
         [] frame[p].op = "create_application" -> a.job_id \notin DOMAIN b.jobs
         [] frame[p].op = "create_interview" -> a.application_id \notin DOMAIN b.applications
         [] OTHER -> FALSE

EveryChildHasItsParent ==
    /\ \A i \in DOMAIN jobs : jobs[i].company_id \in DOMAIN companies
    /\ \A i \in DOMAIN applications : applications[i].job_id \in DOMAIN jobs
    /\ \A i \in DOMAIN interviews : interviews[i].application_id \in DOMAIN applications

\* C22: a job naming no company, an application naming no job and an
\* interview naming no application are refused with the constraint error
\* (unless the database itself failed) and leave every table as it was;
\* every stored job, application and interview names an existing parent.
C22_ForeignKeys ==
    /\ EveryChildHasItsParent
    /\ \A p \in Procs :
          (pc[p] = "exit" /\ ParentMissingBefore(p))
              => /\ frame[p].result[1] = "raised"
                 /\ ~frame[p].fails => frame[p].result = <<"raised", "IntegrityError">>
                 /\ AllTables = frame[p].before

\* with an interview of an application of a job stored, an interview of an
\* application that does not exist has just been refused
C22_Witness ==
    \E p \in Procs :
        /\ AtExit(p, "create_interview")
        /\ ParentMissingBefore(p)
        /\ frame[p].result = <<"raised", "IntegrityError">>
        /\ interviews # <<>>
        /\ applications # <<>>

UrlChecks == {"discovered_job_exists", "job_url_exists"}
AmongDiscovered(url) == \E i \in DOMAIN discovered : discovered[i].url = url
AmongJobs(url) == \E i \in DOMAIN jobs : jobs[i].url = url

C24_AsStated ==
    \A p \in Procs :
        (/\ AtExit(p, "promote")
         /\ frame[p].result = <<"promoted">>
         /\ Len(companies) = Len(pre[p].companies) + 1
         /\ frame[p].sector # None
         /\ frame[p].sector.val \notin SECTORS)
        => companies[Len(companies)].sector = None

(* ------------------ properties of the decoded response ---------------- *)
IsDict(v) == v.kind = "dict"

\* the decoded value as a list: a value that is no list is its only element
AsList(raw) == IF raw.value.kind = "list" THEN raw.value.val ELSE <<raw.value>>

\* the dict elements of the decoded value, in input order
DictsOf(raw) == SelectSeq(AsList(raw), IsDict)

\* the candidates p's call returned are the dict elements, one each, in order;
\* with no dict element there is the one synthetic parse-error candidate
OnePerDict(p) ==
    LET dicts == DictsOf(frame[p].raw_response) IN
    IF dicts = <<>>
    THEN /\ Len(frame[p].jobs) = 1
         /\ frame[p].jobs[1].parse_error
         /\ frame[p].jobs[1].title = Str(ParseErrorTitle)
         /\ frame[p].jobs[1].url = None
    ELSE /\ Len(frame[p].jobs) = Len(dicts)
         /\ \A i \in DOMAIN dicts :
               /\ frame[p].jobs[i].title = Get(dicts[i].val, "title", Str(NoTitle))
               /\ frame[p].jobs[i].company = Get(dicts[i].val, "company", Str(Unknown))
               /\ frame[p].jobs[i].requirements = Get(dicts[i].val, "requirements", Str(<<>>))

HasUntestableUrl(raw) ==
    \E i \in DOMAIN AsList(raw) :
        /\ IsDict(AsList(raw)[i])
        /\ Truthy(UrlOf(AsList(raw)[i]))
        /\ ~IsText(UrlOf(AsList(raw)[i]))

UnknownStored == \E i \in DOMAIN companies : companies[i].name = Str(Unknown)

\* C26 as stated: once the company "Unknown" is stored, the promotion of a
\* record with an empty company name reuses it, and so never sets out to
\* create a company.
C26_AsStated ==
    \A p \in Procs :
        (/\ pc[p] = "promote_create_company"
         /\ ~Truthy(frame[p].dj.val.company_name))
        => ~UnknownStored

(* ----------------------- properties of saved records ------------------ *)
\* the step is the direct status update that keeps a pending record for later
IsSaveStep(i) ==
    \E p \in Procs :
        /\ pc[p] = "idle"
        /\ pc'[p] = "exit"
        /\ frame'[p].op = "save"
        /\ frame'[p].job_id = i

\* C27: a record becomes saved only by the direct status update, and only
\* from pending; no step of a cycle, promote or dismiss changes a saved
\* record; promote and dismiss turn a saved record away with "already saved"
\* and write nothing.
C27_SavedIsManual ==
    /\ [][\A i \in DOMAIN discovered' :
            /\ (discovered'[i].status = "saved"
                /\ (i \notin DOMAIN discovered \/ discovered[i].status # "saved"))
               => /\ IsSaveStep(i)
                  /\ i \in DOMAIN discovered
                  /\ discovered[i].status = "pending"
            /\ (i \in DOMAIN discovered /\ discovered[i].status = "saved")
               => discovered'[i] = discovered[i]]_vars
    /\ [](\A p \in Procs :
            (/\ pc[p] = "exit"
             /\ frame[p].op \in {"promote", "dismiss"}
             /\ Named(p)
             /\ PreDj(p).status = "saved")
            => /\ frame[p].result = <<"already", "saved">>
               /\ Tables = pre[p])

\* a dismiss was tried on a saved record, which is still saved
C27_Witness ==
    \E p \in Procs :
        /\ AtExit(p, "dismiss")
        /\ Named(p)
        /\ frame[p].result = <<"already", "saved">>
        /\ discovered[frame[p].job_id].status = "saved"

(* ---------------------- properties of promoted records ---------------- *)
IsPromoted(i) == discovered[i].status = "promoted"

\* C28: a promoted record names an existing job, that job has the record's
\* url, and two promoted records name two jobs.
C28_PromotedLinks ==
    /\ \A i \in DOMAIN discovered :
          IsPromoted(i)
          => /\ discovered[i].promoted_to_job_id # None
             /\ discovered[i].promoted_to_job_id.val \in DOMAIN jobs
             /\ jobs[discovered[i].promoted_to_job_id.val].url = discovered[i].url
    /\ \A i, j \in DOMAIN discovered :
          (i # j /\ IsPromoted(i) /\ IsPromoted(j))
          => discovered[i].promoted_to_job_id # discovered[j].promoted_to_job_id

\* two records are promoted, each to a job of its own, next to a job that
\* was added by hand
C28_Witness ==
    /\ Len(jobs) = 3
    /\ \E i, j \in DOMAIN discovered :
          /\ i # j
          /\ IsPromoted(i)
          /\ IsPromoted(j)
          /\ discovered[i].promoted_to_job_id.val > 1
          /\ discovered[j].promoted_to_job_id.val > 1

(* ------------------ properties of what a cycle may write -------------- *)
\* the step is one of p's discovery cycle
RunStep(p) ==
    \/ frame[p].op = "run" /\ pc[p] # "exit"
    \/ pc[p] = "idle" /\ frame'[p].op = "run"

\* the candidate's url is that of a record already closed
FoundAgain(p) ==
    /\ ~Candidate(p).parse_error
    /\ Truthy(Candidate(p).url)
    /\ \E i \in DOMAIN discovered :
          /\ discovered[i].url = Candidate(p).url
          /\ discovered[i].status \in {"dismissed", "promoted"}

\* C29: a step of a discovery cycle leaves companies and jobs alone and
\* leaves every staged record as it is; the records it adds are pending and
\* unlinked; a candidate whose url is that of a dismissed or promoted record
\* is counted as duplicate and nothing is written.
C29_CycleOnlyInserts ==
    [][\A p \in Procs :
          /\ RunStep(p)
                => /\ companies' = companies
                   /\ jobs' = jobs
                   /\ Len(discovered') >= Len(discovered)
                   /\ SubSeq(discovered', 1, Len(discovered)) = discovered
                   /\ \A i \in DOMAIN discovered' :
                         i > Len(discovered)
                         => /\ discovered'[i].status = "pending"
                            /\ discovered'[i].promoted_to_job_id = None
          /\ (RunIter(p) /\ FoundAgain(p))
                => /\ Counted(p, "duplicate")
                   /\ store' = store]_vars

\* a cycle has met the url of a record dismissed before it started, and has
\* stored another record as new
C29_Witness ==
    \E p \in Procs :
        /\ frame[p].op = "run"
        /\ pc[p] = "run_loop"
        /\ frame[p].dup_count >= 1
        /\ frame[p].new_count >= 1
        /\ \E i \in DOMAIN pre[p].discovered :
              /\ pre[p].discovered[i].status = "dismissed"
              /\ discovered[i] = pre[p].discovered[i]
              /\ \E k \in 1..(frame[p].i - 1) : frame[p].jobs[k].url = discovered[i].url

(* ------------------ properties of interleaved promotions -------------- *)
\* p and q have both run promote on the same record, each read it pending,
\* and both commands are over
BothPromoteSamePending(p, q) ==
    /\ p # q
    /\ \A r \in {p, q} :
          /\ pc[r] = "exit"
          /\ frame[r].op = "promote"
          /\ Truthy(frame[r].dj)
          /\ frame[r].dj.val.status = "pending"
    /\ frame[p].job_id = frame[q].job_id

\* the jobs of table js that carry the url
JobsWithUrl(js, url) == {i \in DOMAIN js : js[i].url = url}

\* one of the two promoted the record, the other stopped on an error
OneWonOneAborted(p, q) ==
    \/ frame[p].result = <<"promoted">> /\ frame[q].result \in PromoteErrors
    \/ frame[q].result = <<"promoted">> /\ frame[p].result \in PromoteErrors

\* the record is promoted and names the one job that carries its url
PromotedToTheOneJob(id) ==
    /\ discovered[id].status = "promoted"
    /\ Cardinality(JobsWithUrl(jobs, discovered[id].url)) = 1
    /\ discovered[id].promoted_to_job_id # None
    /\ discovered[id].promoted_to_job_id.val \in JobsWithUrl(jobs, discovered[id].url)

NoDatabaseFailure(p, q) == ~frame[p].failed /\ ~frame[q].failed

\* no job carried the record's url when the earlier of the two commands began
\* (rows are only ever added, so the earlier command saw the fewer jobs)
UrlFreeBefore(p, q) ==
    \E r \in {p, q} : JobsWithUrl(pre[r].jobs, discovered[frame[p].job_id].url) = {}

\* the company "Unknown" was stored when the earlier of the two began
UnknownStoredBefore(p, q) ==
    \A r \in {p, q} :
        \E i \in DOMAIN pre[r].companies : pre[r].companies[i].name = Str(Unknown)

\* both commands stopped at the company and wrote nothing
BothAbortedAtCompany(p, q) ==
    /\ \A r \in {p, q} :
          /\ frame[r].result = <<"Error creating company">>
          /\ pre[r].companies = companies
          /\ pre[r].jobs = jobs
    /\ discovered[frame[p].job_id].status = "pending"
    /\ JobsWithUrl(jobs, discovered[frame[p].job_id].url) = {}

====
